---- MODULE Spec2Model ----
(***************************************************************************)
(* Verification development for the voice-driven canvas: the scene         *)
(* reconciler (src/src/lib/canvas-renderer.ts), the orchestrating          *)
(* component VoiceCommandCenter (its source is the text of                 *)
(* src/QUICK_FIXES.md from line 408 on) and the useVoiceRecognition hook.  *)
(*                                                                         *)
(* Conventions                                                             *)
(*  - a string that the code inspects character by character is a          *)
(*    sequence of one-character strings; a string that is only compared    *)
(*    or stored is a TLA+ string;                                          *)
(*  - an element id made by makeId(prefix) is the tuple                    *)
(*    <<prefix, Date.now(), random>>, a diagram id                         *)
(*    `${oldId}_${Date.now()}_${idx}` is <<oldId, Date.now(), idx>>;       *)
(*  - a group id `group_${Date.now()}` is <<"group", t>>, a child group id *)
(*    `${parent}_${index}` is Append(parent, index);                       *)
(*  - null / undefined is the empty tuple <<>>;                            *)
(*  - coordinates are integers; the inputs are chosen so that every        *)
(*    division by two the code performs is exact.                          *)
(***************************************************************************)
EXTENDS Integers, Sequences, FiniteSets, TLC

VARIABLES
  \* ---- calculateSmartPosition applied to enumerated inputs (SpecLayout)
  layEls,      \* existingElements
  layKind,     \* elementType: "note" | "diagram"
  layGroup,    \* groupId, <<>> when absent
  laySize,     \* <<estimatedWidth, estimatedHeight>>
  layPos,      \* <<>> before the call, then the returned [x, y]
  \* ---- the host canvas and one VoiceCommandCenter (SpecScene)
  scene,               \* the host's elements: getSceneElements / updateScene
  excalidrawAPI,       \* window.excalidrawAPI: "undefined" or "ready"
  topicToGroupId,      \* component state: the topic registry
  currentGroupId,      \* component state
  continuousMode,      \* component state: the Continuous mode checkbox
  conversationHistory, \* component state: user and assistant messages
  now,                 \* Date.now()
  pc,                  \* where the running processTranscript is suspended
  inflight,            \* processTranscript's arguments and closure
  call,                \* the running handleAIResponse: parameters and locals
  loop,                \* the multi loop that awaits the running call
  rafQueue,            \* callbacks registered with requestAnimationFrame
  invocations,         \* how many times handleAIResponse has been entered
  \* ---- history variables, read by the properties only
  decision,            \* the last classification of processTranscript
  event,               \* the last scene commit: collections before and after
  runs,                \* the last two reconciles that reached their commit
  removedKeys,         \* the elements the deletion commits have removed
  ended,               \* how the last handleAIResponse ended
  prior,               \* the component before the last block that failed
  \* ---- useVoiceRecognition and the caller's side of VoiceCommandCenter
  \* (SpecCaller)
  isListening,          \* hook state
  transcript,           \* hook state
  transcriptRef,        \* hook ref: the transcript the timers read
  recognitionRef,       \* hook ref: index of the current recognizer, 0 for null
  silenceTimeoutRef,    \* hook ref: the pending 5 s timer with its closure
  recognizers,          \* the SpeechRecognition objects created so far
  isProcessing,         \* component state
  shouldAutoRestartRef, \* component ref
  restartTimers,        \* the pending 800 ms timers with their closures
  flights,              \* the processTranscript invocations not yet finished
  started,              \* how many processTranscript invocations have started
  cleared,              \* history: Clear conversation has been clicked
  stoppedByUser,        \* history: the user has stopped listening since it
                        \* was last started on the user's demand
  \* ---- the rate limiter of the route /api/process-voice (SpecRate)
  rateMap,              \* module state: client address -> count, windowStart
  serverNow,            \* Date.now() on the server
  reply                 \* history: the last request and whether it was limited

layVars == <<layEls, layKind, layGroup, laySize, layPos>>

sceneVars ==
  <<scene, excalidrawAPI, topicToGroupId, currentGroupId, continuousMode, conversationHistory,
    now, pc, inflight, call, loop, rafQueue, invocations, decision, event, runs,
    removedKeys, ended, prior>>

callerVars ==
  <<isListening, transcript, transcriptRef, recognitionRef, silenceTimeoutRef,
    recognizers, isProcessing, shouldAutoRestartRef, restartTimers, flights,
    started, cleared, stoppedByUser>>

rateVars == <<rateMap, serverNow, reply>>

vars == <<layVars, sceneVars, callerVars, rateVars>>

----------------------------------------------------------------------------
(* Generic helpers *)

Null == <<>>

\* no record: a variable or a result that holds nothing
None == [kind |-> "none"]

Max(a, b) == IF a >= b THEN a ELSE b
Min(a, b) == IF a <= b THEN a ELSE b

RECURSIVE SeqMax(_, _)
SeqMax(s, d) == IF s = <<>> THEN d ELSE Max(Head(s), SeqMax(Tail(s), d))

RECURSIVE SeqMin(_, _)
SeqMin(s, d) == IF s = <<>> THEN d ELSE Min(Head(s), SeqMin(Tail(s), d))

\* Array.prototype.filter is SelectSeq of the Sequences module

\* Array.prototype.includes on a groupIds array
Includes(s, v) == \E i \in 1..Len(s) : s[i] = v

Range(s) == {s[i] : i \in 1..Len(s)}

----------------------------------------------------------------------------
(* The route /api/process-voice: the in-memory rate limiter *)

\* 60 * 1000: one minute
RATE_LIMIT_WINDOW_MS == 60000
MAX_REQUESTS_PER_WINDOW == 30

\* the client addresses: a value of the x-forwarded-for header, and
\* 'unknown' for the requests that have none
Clients == {"10.0.0.1", "unknown"}

\* new Map(): no client has an entry
EmptyRateMap == [ip \in Clients |-> None]

RateEntry(count, windowStart) ==
  [kind |-> "entry", count |-> count, windowStart |-> windowStart]

\* checkRateLimit with the window closing at its last millisecond
checkRateLimitClosing(ip, t, map) ==
  LET entry == map[ip]
  IN  IF entry = None \/ t - entry.windowStart >= RATE_LIMIT_WINDOW_MS
      THEN [ok |-> TRUE, rateMap |-> [map EXCEPT ![ip] = RateEntry(1, t)]]
      ELSE IF entry.count >= MAX_REQUESTS_PER_WINDOW
      THEN [ok |-> FALSE, rateMap |-> map]
      ELSE [ok |-> TRUE, rateMap |-> [map EXCEPT ![ip].count = @ + 1]]

\* checkRateLimit (lines 17-33) for the client ip at time t: what it
\* returns and the map it leaves
checkRateLimit(ip, t, map) ==
  LET entry == map[ip]
  IN  IF entry = None \/ t - entry.windowStart > RATE_LIMIT_WINDOW_MS
      THEN [ok |-> TRUE, rateMap |-> [map EXCEPT ![ip] = RateEntry(1, t)]]
      ELSE IF entry.count >= MAX_REQUESTS_PER_WINDOW
      THEN [ok |-> FALSE, rateMap |-> map]
      ELSE [ok |-> TRUE, rateMap |-> [map EXCEPT ![ip].count = @ + 1]]

\* the server before its first request
RateIdle ==
  /\ rateMap = EmptyRateMap
  /\ serverNow = 0
  /\ reply = None

----------------------------------------------------------------------------
(* Canvas elements (ExcalidrawElement).  The style fields that no decision *)
(* of the code reads (colours, stroke, angle, the random jitter fields seed *)
(* and versionNonce, ...) are left out.                                    *)
(* fontSize 0 stands for an element without the property.  createdBy is    *)
(* not a property of the element: it records which invocation of           *)
(* handleAIResponse created it, for the statement of the properties.       *)

Element(id, type, x, y, w, h, text, groupIds, note) ==
  [id |-> id, type |-> type, x |-> x, y |-> y, width |-> w, height |-> h,
   text |-> text, groupIds |-> groupIds, noteElement |-> note,
   version |-> 1, updated |-> 0,
   fontSize |-> 0, baseline |-> 0, containerId |-> Null,
   boundElements |-> <<>>, label |-> Null, createdBy |-> 0]

----------------------------------------------------------------------------
(* Layout: calculateBounds, hasCollision, calculateSmartPosition *)

viewportCenterX == 600
viewportCenterY == 400
spacing == 200
minMargin == 100
collisionPadding == 50

\* x / 2 (exact on the inputs used)
Half(n) == n \div 2

\* calculateBounds of a non-empty collection
calculateBounds(els) ==
  LET xs == [i \in 1..Len(els) |-> els[i].x]
      ys == [i \in 1..Len(els) |-> els[i].y]
      rs == [i \in 1..Len(els) |-> els[i].x + els[i].width]
      bs == [i \in 1..Len(els) |-> els[i].y + els[i].height]
      minX == SeqMin(Tail(xs), Head(xs))
      minY == SeqMin(Tail(ys), Head(ys))
      maxX == SeqMax(Tail(rs), Head(rs))
      maxY == SeqMax(Tail(bs), Head(bs))
  IN  IF els = <<>>
      THEN [minX |-> 0, minY |-> 0, maxX |-> 0, maxY |-> 0,
            width |-> 0, height |-> 0, centerX |-> 0, centerY |-> 0]
      ELSE [minX |-> minX, minY |-> minY, maxX |-> maxX, maxY |-> maxY,
            width |-> maxX - minX, height |-> maxY - minY,
            centerX |-> minX + Half(maxX - minX),
            centerY |-> minY + Half(maxY - minY)]

\* hasCollision: the test box is padded, the existing element is not
hasCollision(x, y, width, height, existingElements) ==
  LET testRight  == x + width + collisionPadding
      testBottom == y + height + collisionPadding
      testLeft   == x - collisionPadding
      testTop    == y - collisionPadding
  IN  \E i \in 1..Len(existingElements) :
        LET el == existingElements[i]
            elRight  == el.x + el.width
            elBottom == el.y + el.height
            elLeft   == el.x
            elTop    == el.y
        IN  ~(testRight < elLeft \/ testLeft > elRight
              \/ testBottom < elTop \/ testTop > elBottom)

\* el.id?.includes(groupId), on the id texts the program builds: an element
\* id is <prefix>_<t>_<n> (t in base 36 for makeId), a synthetic group id is
\* group_<t> (t in decimal) or <parent>_<i>, so a group id occurs in an
\* element id only when it is a one-segment literal equal to the id's prefix
IdIncludes(id, g) ==
  /\ g # Null /\ id # Null
  /\ Len(g) = 1 /\ id[1] = g[1]

\* estimatedWidth || dflt
OrDefault(v, dflt) == IF v = 0 THEN dflt ELSE v

\* a placement that centers notes like diagrams
calculateSmartPositionCentered(existingElements, elementType, groupId, estimatedWidth, estimatedHeight) ==
  [x |-> viewportCenterX - Half(OrDefault(estimatedWidth, 400)),
   y |-> viewportCenterY - Half(OrDefault(estimatedHeight, 300))]

calculateSmartPosition(existingElements, elementType, groupId, estimatedWidth, estimatedHeight) ==
  LET relatedElements ==
        LET Rel(el) == Includes(el.groupIds, groupId) \/ IdIncludes(el.id, groupId)
        IN  SelectSeq(existingElements, Rel)
      bounds == calculateBounds(relatedElements)
      allBounds == calculateBounds(existingElements)
      Clamp(p) == [x |-> Max(minMargin, p.x), y |-> Max(minMargin, p.y)]
      \* diagram branch
      dW == OrDefault(estimatedWidth, 400)
      dH == OrDefault(estimatedHeight, 300)
      d1 == [x |-> Max(100, allBounds.centerX - Half(dW)), y |-> allBounds.maxY + spacing]
      d2 == [x |-> allBounds.maxX + spacing, y |-> allBounds.minY]
      d3 == [x |-> allBounds.centerX - Half(dW), y |-> allBounds.maxY + spacing]
      \* note branch
      nW == OrDefault(estimatedWidth, 300)
      nH == OrDefault(estimatedHeight, 150)
      n1 == [x |-> allBounds.maxX + spacing, y |-> allBounds.minY]
      n2 == [x |-> allBounds.minX, y |-> allBounds.maxY + spacing]
      n3 == [x |-> allBounds.maxX + spacing * 2, y |-> viewportCenterY]
      n4 == [x |-> viewportCenterX - Half(nW), y |-> allBounds.maxY + spacing]
      Hit(p, w, h) == hasCollision(p.x, p.y, w, h, existingElements)
  IN  IF groupId # Null /\ existingElements # <<>> /\ relatedElements # <<>>
      THEN IF elementType = "diagram"
           THEN [x |-> bounds.centerX - Half(OrDefault(estimatedWidth, 400)),
                 y |-> bounds.maxY + spacing]
           ELSE [x |-> bounds.maxX + spacing, y |-> bounds.minY]
      ELSE IF existingElements = <<>>
      THEN IF elementType = "diagram"
           THEN [x |-> viewportCenterX - Half(dW), y |-> viewportCenterY - Half(dH)]
           ELSE [x |-> viewportCenterX - Half(dW) - 100, y |-> viewportCenterY - Half(dH)]
      ELSE IF elementType = "diagram"
      THEN Clamp(IF ~Hit(d1, dW, dH) THEN d1
                 ELSE IF ~Hit(d2, dW, dH) THEN d2 ELSE d3)
      ELSE Clamp(IF ~Hit(n1, nW, nH) THEN n1
                 ELSE IF ~Hit(n2, nW, nH) THEN n2
                 ELSE IF ~Hit(n3, nW, nH) THEN n3 ELSE n4)

----------------------------------------------------------------------------
(* Strings the code inspects: sequences of one-character strings *)

LowerCaseLetters ==
  {"a","b","c","d","e","f","g","h","i","j","k","l","m",
   "n","o","p","q","r","s","t","u","v","w","x","y","z"}

Digits == {"0","1","2","3","4","5","6","7","8","9"}

\* String.prototype.toLowerCase on one character
LowerChar(c) ==
  CASE c = "A" -> "a" [] c = "B" -> "b" [] c = "C" -> "c" [] c = "D" -> "d" [] c = "E" -> "e" [] c = "F" -> "f"
    [] c = "G" -> "g" [] c = "H" -> "h" [] c = "I" -> "i" [] c = "J" -> "j" [] c = "K" -> "k" [] c = "L" -> "l"
    [] c = "M" -> "m" [] c = "N" -> "n" [] c = "O" -> "o" [] c = "P" -> "p" [] c = "Q" -> "q" [] c = "R" -> "r"
    [] c = "S" -> "s" [] c = "T" -> "t" [] c = "U" -> "u" [] c = "V" -> "v" [] c = "W" -> "w" [] c = "X" -> "x"
    [] c = "Y" -> "y" [] c = "Z" -> "z"
    [] OTHER -> c

toLowerCase(s) == [i \in 1..Len(s) |-> LowerChar(s[i])]

\* \s of a regular expression, on the characters the inputs use
IsWs(c) == c \in {" ", "\n"}

RECURSIVE TrimLeft(_)
TrimLeft(s) == IF s # <<>> /\ IsWs(Head(s)) THEN TrimLeft(Tail(s)) ELSE s

RECURSIVE TrimRight(_)
TrimRight(s) ==
  IF s # <<>> /\ IsWs(s[Len(s)]) THEN TrimRight(SubSeq(s, 1, Len(s) - 1)) ELSE s

\* String.prototype.trim
trim(s) == TrimRight(TrimLeft(s))

\* String.prototype.includes
StrIncludes(s, k) ==
  \E i \in 0..(Len(s) - Len(k)) : \A j \in 1..Len(k) : s[i + j] = k[j]

\* String.prototype.startsWith
startsWith(s, p) == Len(p) <= Len(s) /\ \A j \in 1..Len(p) : s[j] = p[j]

\* the index of the first white-space character of s from index i on, 0
\* when there is none
FirstWs(s, i) ==
  LET at == {j \in i..Len(s) : IsWs(s[j])}
  IN  IF at = {} THEN 0 ELSE CHOOSE j \in at : \A k \in at : j <= k

\* s.split(/\s+/): a leading or trailing run of white space yields an empty
\* first or last word
RECURSIVE SplitWs(_)
SplitWs(s) ==
  LET i == FirstWs(s, 1)
  IN  IF i = 0 THEN <<s>>
      ELSE <<SubSeq(s, 1, i - 1)>> \o SplitWs(TrimLeft(SubSeq(s, i, Len(s))))

\* the index of the first occurrence of character c in s from index i on,
\* 0 when there is none
FirstChar(s, c, i) ==
  LET at == {j \in i..Len(s) : s[j] = c}
  IN  IF at = {} THEN 0 ELSE CHOOSE j \in at : \A k \in at : j <= k

\* s.split(c) for a one-character separator
RECURSIVE SplitOn(_, _)
SplitOn(s, c) ==
  LET i == FirstChar(s, c, 1)
  IN  IF i = 0 THEN <<s>>
      ELSE <<SubSeq(s, 1, i - 1)>> \o SplitOn(SubSeq(s, i + 1, Len(s)), c)

\* parts.join(sep)
RECURSIVE Join(_, _)
Join(parts, sep) ==
  IF parts = <<>> THEN <<>>
  ELSE IF Len(parts) = 1 THEN parts[1]
  ELSE parts[1] \o sep \o Join(Tail(parts), sep)

\* .replace(/\s+/g, ' ')
RECURSIVE CollapseWs(_)
CollapseWs(s) ==
  IF s = <<>> THEN <<>>
  ELSE IF IsWs(Head(s)) THEN <<" ">> \o CollapseWs(TrimLeft(s))
  ELSE <<Head(s)>> \o CollapseWs(Tail(s))

\* .replace(/[^a-z0-9 ]/g, '')
StripSpecial(s) ==
  LET Keep(c) == c \in LowerCaseLetters \cup Digits \cup {" "}
  IN  SelectSeq(s, Keep)

\* the bullet character U+2022, written as an ASCII stand-in
Bullet == "@"

\* .replace(/^[\u2022\-\*]\s*/, '')
StripLeadingBullet(s) ==
  IF s # <<>> /\ Head(s) \in {Bullet, "-", "*"} THEN TrimLeft(Tail(s)) ELSE s

----------------------------------------------------------------------------
(* Content blocks (AIResponse).  title and groupId are Null when absent.   *)
(* content is [kind |-> "string", str |-> chars],                          *)
(*            [kind |-> "array", lines |-> sequence of chars],             *)
(*            [kind |-> "items", items |-> sequence of content blocks], or *)
(*            [kind |-> "object"], the empty object {}: a value that is    *)
(*            neither a string nor an array.                               *)

StrContent(str) == [kind |-> "string", str |-> str]
ArrContent(lines) == [kind |-> "array", lines |-> lines]
ItemsContent(items) == [kind |-> "items", items |-> items]
ObjContent == [kind |-> "object"]

\* a value held where the code expects a string and that is not one; it
\* differs from every sequence of characters
NotAString == <<"{}">>

\* String(v) of an object that is not an array
ObjectString == <<"[","o","b","j","e","c","t"," ","O","b","j","e","c","t","]">>

Block(type, title, content, groupId) ==
  [type |-> type, title |-> title, content |-> content, groupId |-> groupId]

TypeChars(type) ==
  CASE type = "note" -> <<"n","o","t","e">>
    [] type = "diagram" -> <<"d","i","a","g","r","a","m">>
    [] type = "multi" -> <<"m","u","l","t","i">>
    [] OTHER -> <<"l","i","s","t">>

\* JSON.stringify of a string: quoted, a line break escaped as \n
JsonString(str) ==
  LET Esc(c) == IF c = "\n" THEN <<"\\", "n">> ELSE <<c>>
      RECURSIVE Go(_)
      Go(r) == IF r = <<>> THEN <<>> ELSE Esc(Head(r)) \o Go(Tail(r))
  IN  <<"\"">> \o Go(str) \o <<"\"">>

\* JSON.stringify(aiResponse.content) for a content that is not a string;
\* the keys of a nested block in the order of the response schema
RECURSIVE JsonContent(_)
JsonContent(c) ==
  LET Key(k) == <<"\"">> \o k \o <<"\"", ":">>
      Item(b) ==
        <<"{">> \o Key(<<"t","y","p","e">>) \o JsonString(TypeChars(b.type))
        \o (IF b.title = Null THEN <<>>
            ELSE <<",">> \o Key(<<"t","i","t","l","e">>) \o JsonString(b.title))
        \o <<",">> \o Key(<<"c","o","n","t","e","n","t">>) \o JsonContent(b.content)
        \o <<"}">>
  IN  CASE c.kind = "string" -> JsonString(c.str)
        [] c.kind = "array" ->
             <<"[">> \o Join([i \in 1..Len(c.lines) |-> JsonString(c.lines[i])], <<",">>) \o <<"]">>
        [] c.kind = "items" ->
             <<"[">> \o Join([i \in 1..Len(c.items) |-> Item(c.items[i])], <<",">>) \o <<"]">>
        [] OTHER -> <<"{", "}">>

----------------------------------------------------------------------------
(* VoiceCommandCenter: topic extraction and matching *)

\* title.toLowerCase().trim().replace(/[^a-z0-9 ]/g,'').replace(/\s+/g,' ')
NormalizeTopic(str) == CollapseWs(StripSpecial(trim(toLowerCase(str))))

\* the first nested block of a multi response that has a title
RECURSIVE FirstTitled(_)
FirstTitled(items) ==
  IF items = <<>> THEN Null
  ELSE IF Head(items).title # Null THEN Head(items).title
  ELSE FirstTitled(Tail(items))

\* extractTopicFromResponse; an absent title and an empty one are both falsy
extractTopicFromResponse(aiResponse) ==
  LET c == aiResponse.content
      truthy == IF c.kind = "string" THEN c.str # <<>> ELSE TRUE
      text == IF c.kind = "string" THEN c.str ELSE JsonContent(c)
      firstLine == SplitOn(text, "\n")[1]
  IN  IF aiResponse.title # Null
      THEN NormalizeTopic(aiResponse.title)
      ELSE IF aiResponse.type = "multi" /\ c.kind = "items" /\ FirstTitled(c.items) # Null
      THEN NormalizeTopic(FirstTitled(c.items))
      ELSE IF truthy
      THEN CollapseWs(StripSpecial(StripLeadingBullet(trim(toLowerCase(firstLine)))))
      ELSE Null

\* the registry topicToGroupId: a JavaScript Map, a sequence of
\* [topic, groupId] entries in insertion order
MapKeys(reg) == [i \in 1..Len(reg) |-> reg[i].topic]
MapHas(reg, k) == \E i \in 1..Len(reg) : reg[i].topic = k
MapGet(reg, k) == reg[CHOOSE i \in 1..Len(reg) : reg[i].topic = k].groupId
MapSetAlone(reg, k, v) == <<[topic |-> k, groupId |-> v]>>

MapSet(reg, k, v) ==
  IF MapHas(reg, k)
  THEN [i \in 1..Len(reg) |-> IF reg[i].topic = k THEN [topic |-> k, groupId |-> v] ELSE reg[i]]
  ELSE Append(reg, [topic |-> k, groupId |-> v])

\* how many words of newTopicWords share a prefix relation with a word of topic
CommonWordCount(newTopicWords, topicWords) ==
  LET Common(w) ==
        \E j \in 1..Len(topicWords) :
          \/ topicWords[j] = w
          \/ startsWith(topicWords[j], w)
          \/ startsWith(w, topicWords[j])
  IN  Len(SelectSeq(newTopicWords, Common))

\* score >= 1.5 with score = common + common / max(|new words|, |topic words|)
ScoreReaches(common, nNew, nTopic) ==
  2 * common * (Max(nNew, nTopic) + 1) >= 3 * Max(nNew, nTopic)

\* score(a) > score(b), the two scores over their own denominators
ScoreGreater(ca, ma, cb, mb) == ca * (ma + 1) * mb > cb * (mb + 1) * ma

\* topic.split(/\s+/).map(w => w[0]).join('').toLowerCase()
Acronym(topic) ==
  LET ws == SplitWs(topic)
      RECURSIVE Go(_)
      Go(r) == IF r = <<>> THEN <<>>
               ELSE (IF Head(r) = <<>> THEN <<>> ELSE <<Head(r)[1]>>) \o Go(Tail(r))
  IN  toLowerCase(Go(ws))

\* the index of matches.sort((a, b) => b.score - a.score)[0] in the
\* original order: the first topic that no topic beats; c[i] and m[i] are
\* the number of common words and the denominator of topic i
BestMatch(c, m) ==
  CHOOSE i \in 1..Len(c) :
    /\ \A j \in 1..Len(c) : ~ScoreGreater(c[j], m[j], c[i], m[i])
    /\ \A j \in 1..(i - 1) : ScoreGreater(c[i], m[i], c[j], m[j])

\* the first index of s whose entry is v, 0 when there is none
IndexOf(s, v) ==
  LET at == {i \in 1..Len(s) : s[i] = v}
  IN  IF at = {} THEN 0 ELSE CHOOSE i \in at : \A k \in at : i <= k

\* lines 465-502 for the long words of the new topic, the lower-cased
\* topics, the score parts and the acronyms of the topics
MatchAmong(newTopic, newTopicWords, existingTopics, lowered, c, m, best, acronyms) ==
  IF IndexOf(lowered, toLowerCase(newTopic)) # 0
  THEN existingTopics[IndexOf(lowered, toLowerCase(newTopic))]
  ELSE IF ScoreReaches(c[best], Len(newTopicWords), m[best])
  THEN existingTopics[best]
  ELSE IF Len(newTopic) <= 5 /\ IndexOf(acronyms, toLowerCase(newTopic)) # 0
  THEN existingTopics[IndexOf(acronyms, toLowerCase(newTopic))]
  ELSE Null

\* the score parts of findMatchingTopic for the topics' words
MatchScored(newTopic, newTopicWords, existingTopics, words) ==
  MatchAmong(newTopic, newTopicWords, existingTopics,
             [i \in 1..Len(existingTopics) |-> toLowerCase(existingTopics[i])],
             [i \in 1..Len(words) |-> CommonWordCount(newTopicWords, words[i])],
             [i \in 1..Len(words) |-> Len(words[i])],
             BestMatch([i \in 1..Len(words) |-> CommonWordCount(newTopicWords, words[i])],
                       [i \in 1..Len(words) |-> Max(Len(newTopicWords), Len(words[i]))]),
             [i \in 1..Len(existingTopics) |-> Acronym(existingTopics[i])])

\* findMatchingTopic (lines 459-503): exact match, else the first
\* best-scoring topic when its score reaches 1.5, else an acronym match for
\* a topic of at most five characters; Null when nothing matches
LongWords(newTopic) ==
  LET LongWord(w) == Len(w) > 3
  IN  SelectSeq(SplitWs(toLowerCase(newTopic)), LongWord)

findMatchingTopic(newTopic, existingTopics) ==
  IF newTopic = <<>> \/ existingTopics = <<>> THEN Null
  ELSE IF LongWords(newTopic) = <<>> THEN Null
  ELSE MatchScored(newTopic, LongWords(newTopic), existingTopics,
                   [i \in 1..Len(existingTopics) |->
                      SplitWs(toLowerCase(existingTopics[i]))])

----------------------------------------------------------------------------
(* VoiceCommandCenter.processTranscript: update detection *)

hasStrongUpdateKeywordsList ==
  { <<"c","o","r","r","e","c","t","i","o","n">>,
    <<"u","p","d","a","t","e">>,
    <<"r","e","p","l","a","c","e">>,
    <<"m","o","d","i","f","y">>,
    <<"c","h","a","n","g","e">>,
    <<"r","e","m","o","v","e">>,
    <<"s","c","r","a","t","c","h"," ","t","h","a","t">>,
    <<"i","n","s","t","e","a","d">>,
    <<"w","a","i","t">>,
    <<"a","c","t","u","a","l","l","y">> }

hasWeakUpdateKeywordsList ==
  { <<"a","l","s","o"," ","a","d","d">>,
    <<"a","l","s","o"," ","i","n","c","l","u","d","e">>,
    <<"m","e","n","t","i","o","n","e","d"," ","e","a","r","l","i","e","r">>,
    <<"m","e","n","t","i","o","n","e","d"," ","a","b","o","v","e">>,
    <<"a","d","d"," ","t","o">> }

isExplicitNewList ==
  { <<"n","e","w"," ">>,
    <<"a","n","o","t","h","e","r"," ">>,
    <<"d","i","f","f","e","r","e","n","t"," ">>,
    <<"s","e","p","a","r","a","t","e"," ">> }

wantsNewNoteList ==
  { <<"n","e","w"," ","c","h","e","c","k","l","i","s","t">>,
    <<"n","e","w"," ","n","o","t","e">>,
    <<"d","i","f","f","e","r","e","n","t"," ","c","h","e","c","k","l","i","s","t">>,
    <<"a","n","o","t","h","e","r"," ","c","h","e","c","k","l","i","s","t">>,
    <<"s","e","p","a","r","a","t","e"," ","c","h","e","c","k","l","i","s","t">>,
    <<"s","e","p","a","r","a","t","e"," ","n","o","t","e">>,
    <<"a","n","o","t","h","e","r"," ","n","o","t","e">> }

commonWords ==
  { <<"t","h","e">>,
    <<"a","n","d">>,
    <<"f","o","r">>,
    <<"w","i","t","h">>,
    <<"a","b","o","u","t">>,
    <<"f","r","o","m">>,
    <<"t","h","a","t">>,
    <<"t","h","i","s">>,
    <<"t","h","e","s","e">>,
    <<"t","h","o","s","e">> }


AnyIncluded(lowerText, list) == \E k \in list : StrIncludes(lowerText, k)

\* currentTopic without the common words
StopWordStripped(currentTopic) ==
  LET Keep(w) == toLowerCase(w) \notin commonWords /\ Len(w) > 0
  IN  Join(SelectSeq(SplitOn(currentTopic, " "), Keep), <<" ">>)

\* isLikelyUpdate with the strong cue counted only in continuous mode
isLikelyUpdateStrongOnlyContinuous(hasStrongUpdateKeywords, hasWeakUpdateKeywords, continuous, previousWasSameType, isExplicitNew) ==
  \/ (hasStrongUpdateKeywords /\ continuous)
  \/ (hasWeakUpdateKeywords /\ continuous)
  \/ (continuous /\ previousWasSameType /\ ~isExplicitNew)

\* isLikelyUpdate with the weak cue counted in every mode
isLikelyUpdateWeakAlways(hasStrongUpdateKeywords, hasWeakUpdateKeywords, continuous, previousWasSameType, isExplicitNew) ==
  \/ hasStrongUpdateKeywords
  \/ hasWeakUpdateKeywords
  \/ (continuous /\ previousWasSameType /\ ~isExplicitNew)

\* isLikelyUpdate of lines 693-695
isLikelyUpdate(hasStrongUpdateKeywords, hasWeakUpdateKeywords, continuous, previousWasSameType, isExplicitNew) ==
  \/ hasStrongUpdateKeywords
  \/ (hasWeakUpdateKeywords /\ continuous)
  \/ (continuous /\ previousWasSameType /\ ~isExplicitNew)

\* the outcome of the update detection
Decision(branch, isUpdate, groupIdToUse, registry, current) ==
  [kind |-> "decision", branch |-> branch, isUpdate |-> isUpdate,
   groupIdToUse |-> groupIdToUse, topicToGroupId |-> registry,
   currentGroupId |-> current]

\* lines 686-741: the response has a topic
DecideTopic(currentTopic, matchingTopic, likelyUpdate, registry, current, fresh) ==
  IF matchingTopic # Null /\ MapHas(registry, matchingTopic)
  THEN IF likelyUpdate
       THEN Decision("update", TRUE, MapGet(registry, matchingTopic),
                     IF currentTopic # matchingTopic
                     THEN MapSet(registry, currentTopic, MapGet(registry, matchingTopic))
                     ELSE registry,
                     current)
       ELSE Decision("newInstance", FALSE, fresh,
                     MapSet(registry, currentTopic, fresh), fresh)
  ELSE Decision("newTopic", FALSE, fresh,
                IF StopWordStripped(currentTopic) # <<>>
                   /\ StopWordStripped(currentTopic) # currentTopic
                THEN MapSet(MapSet(registry, currentTopic, fresh),
                            StopWordStripped(currentTopic), fresh)
                ELSE MapSet(registry, currentTopic, fresh),
                fresh)

\* lines 742-768: the response has no topic
DecideNoTopic(type, hasStrong, hasWeak, wantsNewNote, continuous, hasPreviousUser, previousWasSameType, registry, current, fresh) ==
  IF /\ continuous /\ hasPreviousUser /\ previousWasSameType
     /\ IF type = "note" THEN ~wantsNewNote ELSE hasStrong \/ hasWeak
  THEN Decision("fallbackUpdate", TRUE, current, registry, current)
  ELSE Decision("fallbackNew", FALSE, fresh, registry, fresh)

\* lines 629-768 for the lower-cased utterance and the topic of the response
Decide(lowerText, type, currentTopic, registry, current, continuous, hasPreviousUser, previousWasSameType, fresh) ==
  IF currentTopic # <<>>
  THEN DecideTopic(currentTopic,
                   findMatchingTopic(currentTopic, MapKeys(registry)),
                   isLikelyUpdate(AnyIncluded(lowerText, hasStrongUpdateKeywordsList),
                                  AnyIncluded(lowerText, hasWeakUpdateKeywordsList),
                                  continuous, previousWasSameType,
                                  AnyIncluded(lowerText, isExplicitNewList)),
                   registry, current, fresh)
  ELSE DecideNoTopic(type,
                     AnyIncluded(lowerText, hasStrongUpdateKeywordsList),
                     AnyIncluded(lowerText, hasWeakUpdateKeywordsList),
                     AnyIncluded(lowerText, wantsNewNoteList),
                     continuous, hasPreviousUser, previousWasSameType,
                     registry, current, fresh)

\* The decision of processTranscript (lines 626-768) for utterance `text`
\* and response `aiResponse`, from the state the callback closed over: the
\* registry, the current group id, continuous mode, whether an earlier user
\* message exists and the type of the last assistant response ("none" when
\* there is none); t is Date.now().  Returns isUpdate and groupIdToUse and
\* the registry and current group id the component is left with.
Classify(text, aiResponse, registry, current, continuous, hasPreviousUser, previousType, t) ==
  Decide(toLowerCase(text), aiResponse.type, extractTopicFromResponse(aiResponse),
         registry, current, continuous, hasPreviousUser,
         previousType # "none" /\ previousType = aiResponse.type,
         <<"group", t>>)

----------------------------------------------------------------------------
(* Element factories: makeId, createTextElement, createRectangleElement.   *)
(* t is the value of Date.now(), r the value drawn from Math.random() for  *)
(* the id.                                                                 *)

makeId(prefix, t, r) == <<prefix, t, r>>

\* Math.max(...lines.map(l => l.length), 1)
MaxLineLength(lines) == SeqMax([i \in 1..Len(lines) |-> Len(lines[i])], 1)

\* createTextElement; size is <<width, height>>, Null when the options are
\* absent (every caller passes both or neither).  fontSize * 0.6 and
\* fontSize * 1.35 are taken in tenths and hundredths and rounded down.
createTextElement(x, y, text, size, fontSize, containerId, t, r) ==
  LET lines == SplitOn(text, "\n")
      estimatedWidth ==
        Max(IF size = Null THEN 200 ELSE size[1],
            (MaxLineLength(lines) * fontSize * 6) \div 10 + 20)
      estimatedHeight ==
        Max(IF size = Null THEN 40 ELSE size[2],
            (Len(lines) * fontSize * 135) \div 100 + 10)
  IN  [Element(makeId("text", t, r), "text", x, y,
               IF size = Null THEN estimatedWidth ELSE size[1],
               IF size = Null THEN estimatedHeight ELSE size[2],
               text, <<>>, FALSE)
         EXCEPT !.version = 3, !.updated = t,
                !.fontSize = fontSize, !.baseline = fontSize,
                !.containerId = containerId]

\* createRectangleElement
createRectangleElement(x, y, width, height, t, r) ==
  [Element(makeId("rect", t, r), "rectangle", x, y, width, height, Null, <<>>, FALSE)
     EXCEPT !.version = 1, !.updated = t]

----------------------------------------------------------------------------
(* handleAIResponse, note path *)

\* `trimmed.startsWith(bullet) ? trimmed : bullet + ' ' + trimmed`
WithBullet(trimmed) ==
  IF startsWith(trimmed, <<Bullet>>) THEN trimmed ELSE <<Bullet, " ">> \o trimmed

\* contentText of lines 607-613: an array becomes its trimmed, bulleted
\* lines joined by line breaks, a string is taken as it is
NoteContentText(content) ==
  CASE content.kind = "array" ->
         Join([i \in 1..Len(content.lines) |-> WithBullet(trim(content.lines[i]))], <<"\n">>)
    [] content.kind = "items" ->
         Join([i \in 1..Len(content.items) |-> WithBullet(ObjectString)], <<"\n">>)
    [] content.kind = "string" -> content.str
    [] OTHER -> NotAString

\* lines 626-648: every non-blank line trimmed and given a bullet; a
\* content that is not a string is left as it is
EnsureBullets(contentText) ==
  LET lines == SplitOn(contentText, "\n")
      hasBullets == \E i \in 1..Len(lines) : startsWith(trim(lines[i]), <<Bullet>>)
      NonEmpty(l) == Len(l) > 0
      trimmedLines == [i \in 1..Len(lines) |-> trim(lines[i])]
      bulleted ==
        [i \in 1..Len(lines) |->
           IF trim(lines[i]) = <<>> THEN <<>> ELSE WithBullet(trim(lines[i]))]
  IN  IF contentText = NotAString THEN contentText
      ELSE IF trim(contentText) = <<>> THEN contentText
      ELSE IF ~hasBullets
      THEN LET kept == SelectSeq(trimmedLines, NonEmpty)
           IN  Join([i \in 1..Len(kept) |-> WithBullet(kept[i])], <<"\n">>)
      ELSE Join(SelectSeq(bulleted, NonEmpty), <<"\n">>)

\* ---- findSimilarNote

\* \w of a regular expression
IsWord(c) == c \in LowerCaseLetters \cup Digits \cup {"_"} \/ LowerChar(c) # c

\* extractNoteContent (lines 56-66) of a string
extractNoteContent(contentStr) ==
  LET lower == toLowerCase(contentStr)
      spaced == [i \in 1..Len(lower) |->
                   IF IsWord(lower[i]) \/ IsWs(lower[i]) THEN lower[i] ELSE " "]
  IN  trim(CollapseWs(spaced))

\* how many positions of s hold the pair b
BigramCount(s, b) == Cardinality({i \in 1..(Len(s) - 1) : <<s[i], s[i + 1]>> = b})

\* compareTwoStrings of the imported string-similarity package: twice the
\* number of pairs of adjacent characters the two strings share, over the
\* number of pairs of both, white space removed; the value is the fraction
\* <<numerator, denominator>>
compareTwoStrings(first, second) ==
  LET NotWs(c) == ~IsWs(c)
      a == SelectSeq(first, NotWs)
      b == SelectSeq(second, NotWs)
      pairs == {<<a[i], a[i + 1]>> : i \in 1..(Len(a) - 1)}
      Shared(p) == IF BigramCount(a, p) <= BigramCount(b, p)
                   THEN BigramCount(a, p) ELSE BigramCount(b, p)
      RECURSIVE Sum(_)
      Sum(ps) == IF ps = {} THEN 0
                 ELSE LET p == CHOOSE q \in ps : TRUE
                      IN  Shared(p) + Sum(ps \ {p})
  IN  IF a = b THEN <<1, 1>>
      ELSE IF Len(a) < 2 \/ Len(b) < 2 THEN <<0, 1>>
      ELSE <<2 * Sum(pairs), Len(a) + Len(b) - 2>>

\* a comparison that only two identical strings pass
AtLeastIdentical(similarity, percent) == similarity[1] = similarity[2]

\* similarity >= percent / 100
AtLeast(similarity, percent) == 100 * similarity[1] >= percent * similarity[2]

\* similarity > other
Greater(similarity, other) == similarity[1] * other[2] > other[1] * similarity[2]

\* `groupId.startsWith('group_')`
IsGroupId(groupId) == groupId # <<>> /\ Head(groupId) = "group"

\* the first pass of findSimilarNote (lines 80-105) on the elements from
\* index i on: the entries of the map in insertion order, each with the
\* title and the content collected so far
RECURSIVE CollectNotes(_, _, _)
CollectNotes(existingElements, i, notes) ==
  IF i > Len(existingElements) THEN notes
  ELSE LET el == existingElements[i]
           groupId == el.groupIds[Len(el.groupIds)]
           at == {k \in 1..Len(notes) : notes[k].groupId = groupId}
           noteData == IF at = {} THEN [groupId |-> groupId, content |-> <<>>, title |-> <<>>]
                       ELSE notes[CHOOSE k \in at : TRUE]
           updated ==
             IF el.type = "text" /\ el.text # Null
             THEN IF noteData.content = <<>> /\ noteData.title = <<>>
                  THEN [noteData EXCEPT !.title = el.text]
                  ELSE [noteData EXCEPT !.content = @ \o <<" ">> \o el.text]
             ELSE IF el.type = "rectangle" /\ el.label # Null
             THEN [noteData EXCEPT !.content = @ \o <<" ">> \o el.label]
             ELSE noteData
       IN  IF el.noteElement = TRUE /\ el.groupIds # <<>> /\ IsGroupId(groupId)
           THEN CollectNotes(existingElements, i + 1,
                             IF at = {} THEN Append(notes, updated)
                             ELSE [notes EXCEPT ![CHOOSE k \in at : TRUE] = updated])
           ELSE CollectNotes(existingElements, i + 1, notes)

\* the second loop of findSimilarNote (lines 120-137) from entry k on:
\* the first note similar at 0.95 or more, else the most similar one at
\* the threshold or more
RECURSIVE MostSimilar(_, _, _, _)
MostSimilar(normalizedContent, notes, k, bestMatch) ==
  IF k > Len(notes)
  THEN IF bestMatch.kind = "none" THEN None
       ELSE [kind |-> "match", groupId |-> bestMatch.groupId, isExactMatch |-> FALSE]
  ELSE LET noteData == notes[k]
           fullNoteContent == trim(noteData.title \o <<" ">> \o noteData.content)
           similarity == compareTwoStrings(normalizedContent,
                                           extractNoteContent(fullNoteContent))
       IN  IF fullNoteContent = <<>>
           THEN MostSimilar(normalizedContent, notes, k + 1, bestMatch)
           ELSE IF AtLeast(similarity, 95)
           THEN [kind |-> "match", groupId |-> noteData.groupId, isExactMatch |-> TRUE]
           ELSE IF /\ AtLeast(similarity, 70)
                   /\ (bestMatch.kind = "none" \/ Greater(similarity, bestMatch.similarity))
           THEN MostSimilar(normalizedContent, notes, k + 1,
                            [kind |-> "best", groupId |-> noteData.groupId,
                             similarity |-> similarity])
           ELSE MostSimilar(normalizedContent, notes, k + 1, bestMatch)

\* findSimilarNote(content, existingElements) for a string content and the
\* default threshold (lines 69-140); None stands for null
findSimilarNote(content, existingElements) ==
  LET normalizedContent == extractNoteContent(content)
      existingNotes == CollectNotes(existingElements, 1, <<>>)
      potentialTitle == trim(SplitOn(content, "\n")[1])
      titled == {k \in 1..Len(existingNotes) :
                   /\ existingNotes[k].title # <<>>
                   /\ potentialTitle # <<>>
                   /\ toLowerCase(existingNotes[k].title) = toLowerCase(potentialTitle)}
  IN  IF titled # {}
      THEN [kind |-> "match",
            groupId |-> existingNotes[CHOOSE k \in titled : \A j \in titled : k <= j].groupId,
            isExactMatch |-> TRUE]
      ELSE MostSimilar(normalizedContent, existingNotes, 1, None)

\* `response.title && typeof response.title === 'string' && response.title.trim()`
HasTitle(response) == response.title # Null /\ trim(response.title) # <<>>

\* a deletion that removes nothing
NoteDeletionKeepsAll(existingElements, groupId) == existingElements

\* the filter of lines 659-664: everything that is not a note of the group
NoteDeletion(existingElements, groupId) ==
  LET Keep(el) == ~(Includes(el.groupIds, groupId) /\ el.noteElement = TRUE)
  IN  SelectSeq(existingElements, Keep)

\* the collection read at entry used in place of the one read after the wait
NoteCurrentElementsStale(sceneElements, existingElements) == existingElements

\* the collection read at line 693, after the deletion when there was one
NoteCurrentElements(sceneElements, existingElements) == sceneElements

textPaddingX == 20
textPaddingY == 15

\* lines 679-690: the rectangle's size from the text
NoteRectSize(contentText) ==
  LET lines == SplitOn(contentText, "\n")
      textWidth == Max(400, MaxLineLength(lines) * 11)
      textHeight == Max(80, Len(lines) * 28)
  IN  <<textWidth + textPaddingX * 2, textHeight + textPaddingY * 2>>

\* elements tagged with no group
GroupIdsOfNone(response) == <<>>

\* `response.groupId ? [response.groupId] : []`
GroupIdsOf(response) ==
  IF response.groupId # Null THEN <<response.groupId>> ELSE <<>>

\* lines 704-753: the new elements of a note at `position` in commit order
\* (rectangle, heading when the block has a non-blank title, body text);
\* ids made in the order rectangle, body text, heading
NoteElements(response, contentText, position, t, rs, by) ==
  LET size == NoteRectSize(contentText)
      groupIds == GroupIdsOf(response)
      rect == [createRectangleElement(position.x, position.y, size[1], size[2],
                                      t, rs[1])
                 EXCEPT !.groupIds = groupIds, !.noteElement = TRUE, !.createdBy = by]
      textElement ==
        [createTextElement(position.x + textPaddingX, position.y + textPaddingY,
                           contentText, Null, 20, Null, t, rs[2])
           EXCEPT !.groupIds = groupIds, !.noteElement = TRUE, !.createdBy = by]
      headingElement ==
        [createTextElement(position.x, position.y - 50, trim(response.title),
                           <<size[1], 40>>, 24, Null, t, rs[3])
           EXCEPT !.groupIds = groupIds, !.noteElement = TRUE, !.createdBy = by]
  IN  IF HasTitle(response)
      THEN <<rect, headingElement, textElement>>
      ELSE <<rect, textElement>>

\* lines 696-702: where the note goes
NotePosition(response, contentText, currentElements) ==
  calculateSmartPosition(currentElements, response.type, response.groupId,
                         NoteRectSize(contentText)[1], NoteRectSize(contentText)[2])

\* the ids the deferred commit of a note looks for (line 771)
NoteConfirmIds(newElements) ==
  {newElements[i].id : i \in {j \in 1..Len(newElements) : newElements[j].type = "text"}}

----------------------------------------------------------------------------
(* handleAIResponse, diagram path *)

\* an element as the diagram parser returns it; label is the text of the
\* element's label, Null when it has none; the element has no groupIds
\* unless the markup puts it in a subgraph
Skeleton(id, type, x, y, w, h, label, text, containerId, boundElements) ==
  [id |-> id, type |-> type, x |-> x, y |-> y, width |-> w, height |-> h,
   label |-> label, text |-> text, containerId |-> containerId,
   boundElements |-> boundElements, groupIds |-> Null]

\* a node with its label as a text element of its own, bound to it
BoundText == Skeleton(<<"t">>, "text", 10, 10, 50, 20, Null, <<"x">>, <<"C">>, <<>>)
Container ==
  Skeleton(<<"C">>, "rectangle", 0, 0, 100, 100, Null, Null, Null,
           <<[type |-> "text", id |-> <<"t">>]>>)

\* parseMermaidToExcalidraw, the imported parser, on the markups the
\* requests use: "A" is one labelled node, "S" the same node in a subgraph,
\* away from the origin of the parser's coordinates,
\* "C" a node followed by the text bound to it, "T" the same two elements
\* with the text first, "V" a lone text element that has no text (the only
\* kind of element the filter of lines 1165-1174 can drop, see
\* AssembleDiagram), "E" parses to no element at all, every other markup
\* is a syntax error
parseMermaidToExcalidraw(diagramContent) ==
  CASE diagramContent = <<"A">> ->
         [ok |-> TRUE,
          elements |-> <<Skeleton(<<"A">>, "rectangle", 0, 0, 100, 100,
                                  <<"a">>, Null, Null, <<>>)>>]
    [] diagramContent = <<"S">> ->
         [ok |-> TRUE,
          elements |-> <<[Skeleton(<<"A">>, "rectangle", 30, 40, 100, 100,
                                   <<"a">>, Null, Null, <<>>)
                            EXCEPT !.groupIds = <<<<"sub">>>>]>>]
    [] diagramContent = <<"C">> -> [ok |-> TRUE, elements |-> <<Container, BoundText>>]
    [] diagramContent = <<"T">> -> [ok |-> TRUE, elements |-> <<BoundText, Container>>]
    [] diagramContent = <<"V">> ->
         [ok |-> TRUE,
          elements |-> <<Skeleton(<<"V">>, "text", 0, 0, 100, 100,
                                  Null, Null, Null, <<>>)>>]
    [] diagramContent = <<"E">> -> [ok |-> TRUE, elements |-> <<>>]
    [] OTHER -> [ok |-> FALSE, elements |-> <<>>]

\* diagramContent of lines 794-796
DiagramContent(content) ==
  CASE content.kind = "array" -> Join(content.lines, <<"\n">>)
    [] content.kind = "items" ->
         Join([i \in 1..Len(content.items) |-> ObjectString], <<"\n">>)
    [] content.kind = "string" -> content.str
    [] OTHER -> NotAString

\* cleanedContent of lines 818-829.  The markups of the requests hold no
\* bracket and no quote, so the first two replacements find nothing to
\* replace; the third drops every character outside printable ASCII.
CleanedContent(diagramContent) ==
  LET Printable(c) == c # Bullet
  IN  SelectSeq(diagramContent, Printable)

\* diagramBounds of lines 859-871, for a non-empty sequence
DiagramBounds(elements) ==
  LET xs == [i \in 1..Len(elements) |-> elements[i].x]
      ys == [i \in 1..Len(elements) |-> elements[i].y]
      rights == [i \in 1..Len(elements) |-> elements[i].x + elements[i].width]
      bottoms == [i \in 1..Len(elements) |-> elements[i].y + elements[i].height]
  IN  [minX |-> SeqMin(Tail(xs), Head(xs)), minY |-> SeqMin(Tail(ys), Head(ys)),
       maxX |-> SeqMax(Tail(rights), Head(rights)),
       maxY |-> SeqMax(Tail(bottoms), Head(bottoms))]

\* the filter of lines 876-882: everything that is not a non-note element
\* of the group
DiagramDeletion(existingElements, groupId) ==
  LET Keep(el) == ~(Includes(el.groupIds, groupId) /\ ~(el.noteElement = TRUE))
  IN  SelectSeq(existingElements, Keep)

\* baseElements of lines 874-902: the collection read at entry, read again
\* only after a deletion that removed something
DiagramBaseElements(sceneElements, existingElements, deleted) ==
  IF deleted THEN sceneElements ELSE existingElements

\* lines 918-1017: first and second pass of the normalisation
NormalizeElements(elements, groupIds, offsetX, offsetY, t, by) ==
  LET newId(i) == Append(Append(elements[i].id, t), i - 1)
      \* idMap after the first i elements have been entered
      Has(id, i) == \E j \in 1..i : elements[j].id = id
      Get(id, i) ==
        newId(CHOOSE j \in 1..i :
                /\ elements[j].id = id
                /\ \A k \in (j + 1)..i : elements[k].id # id)
      n == Len(elements)
      One(i) ==
        LET el == elements[i]
            hasText == el.text # Null \/ el.label # Null
            textValue == IF el.text # Null THEN el.text ELSE el.label
            isText == el.type = "text" \/ hasText
        IN  [Element(newId(i), el.type, el.x + offsetX, el.y + offsetY,
                     el.width, el.height,
                     IF hasText THEN textValue ELSE Null,
                     el.groupIds \o groupIds, FALSE)
               EXCEPT !.version = IF isText THEN Max(1 + 1, 3) ELSE 1,
                      !.updated = t,
                      !.fontSize = IF isText THEN 20 ELSE 0,
                      !.baseline = IF isText THEN 20 ELSE 0,
                      !.label = el.label,
                      !.containerId =
                        IF el.containerId # Null /\ Has(el.containerId, i)
                        THEN Get(el.containerId, i) ELSE el.containerId,
                      !.boundElements =
                        [k \in 1..Len(el.boundElements) |->
                           IF Has(el.boundElements[k].id, n)
                           THEN [el.boundElements[k] EXCEPT
                                   !.id = Get(el.boundElements[k].id, n)]
                           ELSE el.boundElements[k]],
                      !.createdBy = by]
  IN  [i \in 1..n |-> One(i)]

\* `el.width || 100`
Or100(v) == IF v = 0 THEN 100 ELSE v

\* lines 1044-1080: a text bound to a container that is among the shapes
\* takes the container's box and is marked for re-rendering
CentreInContainer(textEl, shapeElements, t) ==
  LET Holds(s) == s.id = textEl.containerId
      found == SelectSeq(shapeElements, Holds)
      container == Head(found)
  IN  IF textEl.containerId # Null /\ found # <<>>
      THEN [textEl EXCEPT !.x = container.x, !.y = container.y,
                          !.width = Or100(container.width),
                          !.height = Or100(container.height),
                          !.baseline = IF textEl.fontSize = 0 THEN 20 ELSE textEl.fontSize,
                          !.updated = t,
                          !.version = Max(textEl.version + 1, 3)]
      ELSE textEl

\* the same without the entry in the shape's boundElements
RECURSIVE WithLabelTextsUnbound(_, _, _, _, _, _)
WithLabelTextsUnbound(shapeElements, k, textByContainer, t, rs, by) ==
  IF k > Len(shapeElements) THEN <<>>
  ELSE LET el == shapeElements[k]
           textElement ==
             [createTextElement(el.x, el.y, el.label,
                                <<Or100(el.width), Or100(el.height)>>,
                                20, el.id, t, rs[k])
                EXCEPT !.groupIds = el.groupIds, !.createdBy = by]
       IN  (IF el.label # Null /\ el.boundElements = <<>>
               /\ el.id \notin textByContainer /\ trim(el.label) # <<>>
            THEN <<el, textElement>>
            ELSE <<el>>)
           \o WithLabelTextsUnbound(shapeElements, k + 1, textByContainer, t, rs, by)

\* lines 1083-1162: the shapes in order, each labelled shape without bound
\* text followed by a text element made for its label; rs[k] is the random
\* draw for the k-th shape
RECURSIVE WithLabelTexts(_, _, _, _, _, _)
WithLabelTexts(shapeElements, k, textByContainer, t, rs, by) ==
  IF k > Len(shapeElements) THEN <<>>
  ELSE LET el == shapeElements[k]
           hasBoundText == el.boundElements # <<>>
           hasTextElement == el.id \in textByContainer
           textElement ==
             [createTextElement(el.x, el.y, el.label,
                                <<Or100(el.width), Or100(el.height)>>,
                                20, el.id, t, rs[k])
                EXCEPT !.groupIds = el.groupIds, !.createdBy = by]
           bound ==
             [el EXCEPT !.boundElements =
                          Append(@, [type |-> "text", id |-> textElement.id])]
       IN  (IF el.label # Null /\ ~hasBoundText /\ ~hasTextElement
               /\ trim(el.label) # <<>>
            THEN <<bound, textElement>>
            ELSE <<el>>)
           \o WithLabelTexts(shapeElements, k + 1, textByContainer, t, rs, by)

\* how many shapes the parser's elements hold: one random draw for each,
\* and one for the heading
ShapeCount(elements) ==
  LET IsShape(el) == el.type # "text" IN Len(SelectSeq(elements, IsShape))

\* lines 1037-1193 for the shapes and the texts among the normalised
\* elements: the texts, the shapes with their label texts, without the
\* invalid ones, and the heading when the block has a non-blank title
AssembleDiagram(response, shapeElements, rawTexts, position, diagramWidth, t, rs, by) ==
  LET textByContainer ==
        {rawTexts[i].containerId :
           i \in {j \in 1..Len(rawTexts) : rawTexts[j].containerId # Null}}
      \* a text element is valid when its text is defined
      Valid(el) == IF el.type = "text" THEN el.text # Null ELSE TRUE
      heading ==
        [createTextElement(position.x, position.y - 60, trim(response.title),
                           <<diagramWidth, 40>>, 24, Null, t,
                           rs[Len(shapeElements) + 1])
           EXCEPT !.groupIds = GroupIdsOf(response), !.createdBy = by]
  IN  SelectSeq([i \in 1..Len(rawTexts) |->
                   CentreInContainer(rawTexts[i], shapeElements, t)]
                \o WithLabelTexts(shapeElements, 1, textByContainer, t, rs, by),
                Valid)
      \o (IF HasTitle(response) THEN <<heading>> ELSE <<>>)

\* lines 1037-1039: the normalised elements split into shapes and texts
SplitDiagram(response, normalized, position, diagramWidth, t, rs, by) ==
  LET IsText(el) == el.type = "text"
      IsShape(el) == el.type # "text"
  IN  AssembleDiagram(response, SelectSeq(normalized, IsShape),
                      SelectSeq(normalized, IsText), position, diagramWidth,
                      t, rs, by)

\* the same with the elements moved by `position` itself
PlaceDiagramUnshifted(response, elements, diagramBounds, position, t, rs, by) ==
  SplitDiagram(response,
               NormalizeElements(elements, GroupIdsOf(response),
                                 position.x, position.y, t, by),
               position, diagramBounds.maxX - diagramBounds.minX, t, rs, by)

\* lines 913-1017: the elements moved to `position` and normalised
PlaceDiagram(response, elements, diagramBounds, position, t, rs, by) ==
  SplitDiagram(response,
               NormalizeElements(elements, GroupIdsOf(response),
                                 position.x - diagramBounds.minX,
                                 position.y - diagramBounds.minY, t, by),
               position, diagramBounds.maxX - diagramBounds.minX, t, rs, by)

\* lines 904-911: where the diagram goes
DiagramPosition(response, diagramBounds, baseElements) ==
  calculateSmartPosition(baseElements, response.type, response.groupId,
                         diagramBounds.maxX - diagramBounds.minX,
                         diagramBounds.maxY - diagramBounds.minY)

\* lines 856-1193: the elements a diagram commit appends to baseElements;
\* the empty sequence when none is valid
DiagramElements(response, elements, baseElements, t, rs, by) ==
  PlaceDiagram(response, elements, DiagramBounds(elements),
               DiagramPosition(response, DiagramBounds(elements), baseElements),
               t, rs, by)

\* textElementIds of line 1212
DiagramConfirmIds(validElements) ==
  {validElements[i].id :
     i \in {j \in 1..Len(validElements) : validElements[j].type = "text"}}

\* the messages of the errors thrown at lines 839, 850 and 1196; the
\* parser's own message is a fixed text
ParseErrorMessage ==
  <<"U","n","a","b","l","e"," ","t","o"," ","p","a","r","s","e"," ","d","i","a","g","r","a","m","."," ","M","e","r","m","a","i","d"," ","s","y","n","t","a","x"," ","e","r","r","o","r",":"," ","P","a","r","s","e"," ","e","r","r","o","r">>
NoElementsMessage == <<"N","o"," ","e","l","e","m","e","n","t","s"," ","g","e","n","e","r","a","t","e","d"," ","f","r","o","m"," ","M","e","r","m","a","i","d"," ","d","i","a","g","r","a","m">>
NoValidElementsMessage == <<"N","o"," ","v","a","l","i","d"," ","e","l","e","m","e","n","t","s"," ","t","o"," ","a","d","d"," ","t","o"," ","s","c","e","n","e">>

\* errorMessage of lines 1260-1263; the warning sign and its variation
\* selector are written as two ASCII characters
ErrorMessage(message, errorContent) ==
  <<"!","!"," ","U","n","a","b","l","e"," ","t","o"," ","c","r","e","a","t","e"," ","d","i","a","g","r","a","m","\n","\n","E","r","r","o","r",":"," ">> \o message
  \o <<"\n","\n","O","r","i","g","i","n","a","l"," ","c","o","n","t","e","n","t",":","\n">>
  \o SubSeq(errorContent, 1, Min(150, Len(errorContent)))
  \o (IF Len(errorContent) > 150 THEN <<".",".",".">> ELSE <<>>)
  \o <<"\n","\n","T","i","p",":"," ","T","h","e"," ","d","i","a","g","r","a","m"," ","s","y","n","t","a","x"," ","m","a","y"," ","h","a","v","e"," ","i","s","s","u","e","s","."," ","T","r","y"," ","s","i","m","p","l","i","f","y","i","n","g"," ","t","h","e"," ","d","i","a","g","r","a","m"," ","o","r"," ","c","h","e","c","k"," ","f","o","r"," ","s","p","e","c","i","a","l"," ","c","h","a","r","a","c","t","e","r","s"," ","i","n"," ","l","a","b","e","l","s",".">>

\* lines 1257-1307: the elements of the error card at errorPosition in
\* commit order; none of them is tagged as a note
ErrorElements(response, message, errorPosition, t, rs, by) ==
  LET groupIds == GroupIdsOf(response)
      errorRect ==
        [createRectangleElement(errorPosition.x, errorPosition.y, 500, 200, t, rs[1])
           EXCEPT !.groupIds = groupIds, !.createdBy = by]
      errorText ==
        [createTextElement(errorPosition.x + 20, errorPosition.y + 20,
                           ErrorMessage(message, DiagramContent(response.content)),
                           Null, 16, Null, t, rs[2])
           EXCEPT !.groupIds = groupIds, !.createdBy = by]
      errorHeading ==
        [createTextElement(errorPosition.x, errorPosition.y - 50,
                           trim(response.title) \o <<" ","(","E","r","r","o","r",")">>,
                           <<500, 40>>, 24, Null, t, rs[3])
           EXCEPT !.groupIds = groupIds, !.createdBy = by]
  IN  IF HasTitle(response)
      THEN <<errorRect, errorHeading, errorText>>
      ELSE <<errorRect, errorText>>

\* lines 1249-1255: where the error card goes
ErrorPosition(response, currentElements) ==
  calculateSmartPosition(currentElements, "note", response.groupId, 500, 200)

----------------------------------------------------------------------------
(* The scene machine: processTranscript and handleAIResponse as steps      *)
(* between their suspension points, and the host's animation frames.       *)
(*                                                                         *)
(* pc is "idle" when no processTranscript runs, "fetch" while it awaits    *)
(* the server, "enter" when handleAIResponse is about to be entered in the *)
(* same turn of the event loop, "noteWait" and "diagramWait" during the    *)
(* 100 ms wait after a deletion, "parse" and "retry" while the diagram     *)
(* parser runs.  One processTranscript runs at a time (see SpecCaller for   *)
(* the caller); the requests nest multi blocks one level deep.             *)

\* the variables no step of the reconcile touches: the reconcile machine
\* follows processTranscript and the checkbox on the reconcile's state, and
\* SpecCaller follows them on the recognizer and the caller's flags
outside == <<layVars, callerVars, rateVars>>

\* how many utterances a behaviour processes
MaxBlocks == 2

\* Math.floor(Math.random() * 1e6) takes a value below MaxRand
MaxRand == 2

\* the values of k successive calls of Math.random()
Draws(k) == [1..k -> 0..(MaxRand - 1)]

\* how long an await of the parser may take, in ticks of the clock
ParseDelays == {0, 1}

UserMessage == [role |-> "user", type |-> "none"]
AssistantMessage(aiResponse) == [role |-> "assistant", type |-> aiResponse.type]

\* how many utterances the history holds
UserCount(history) ==
  LET IsUser(m) == m.role = "user" IN Len(SelectSeq(history, IsUser))

\* conversationHistory.filter(m => m.role === 'user').slice(-1)[0] exists
HasPreviousUser(history) == \E i \in 1..Len(history) : history[i].role = "user"

\* the type of the last assistant message, "none" when there is none
PreviousType(history) ==
  LET IsAssistant(m) == m.role = "assistant"
      replies == SelectSeq(history, IsAssistant)
  IN  IF replies = <<>> THEN "none" ELSE replies[Len(replies)].type

\* a decision of processTranscript with what it was taken from
Observed(d, text, aiResponse, registry, current, continuous, previousType) ==
  [kind |-> "decision", branch |-> d.branch, isUpdate |-> d.isUpdate,
   groupIdToUse |-> d.groupIdToUse, topicToGroupId |-> d.topicToGroupId,
   currentGroupId |-> d.currentGroupId, text |-> text, response |-> aiResponse,
   registryBefore |-> registry, currentBefore |-> current,
   continuous |-> continuous, previousType |-> previousType]

\* the parameters and locals of one handleAIResponse
Call(response, shouldUpdate, api) ==
  [kind |-> "call", response |-> response, shouldUpdate |-> shouldUpdate,
   api |-> api,
   by |-> 0, existingElements |-> <<>>, contentText |-> <<>>,
   elements |-> <<>>, deleted |-> FALSE, removed |-> {}, parses |-> 0,
   similar |-> [kind |-> "unsearched"]]

\* what distinguishes an element from every other one in the properties
Key(el) == <<el.id, el.createdBy>>
Keys(els) == {Key(els[i]) : i \in 1..Len(els)}

Event(kind, c, before, after, base, created) ==
  [kind |-> kind, by |-> c.by, groupId |-> c.response.groupId,
   response |-> c.response, shouldUpdate |-> c.shouldUpdate,
   entry |-> c.existingElements, removed |-> c.removed, parses |-> c.parses,
   similar |-> c.similar,
   before |-> before, after |-> after, base |-> base, created |-> created]

Run(c, count) ==
  [response |-> c.response, shouldUpdate |-> c.shouldUpdate, count |-> count]

\* the last two entries of the runs with r added
AddRun(r) == IF runs = <<>> THEN <<r>> ELSE <<runs[Len(runs)], r>>

\* a key the object of a nested item does not have
Undefined == "undefined"

\* lines 585-586: the item is an object that has a type and a content
IsBlock(item) == item.type # Undefined /\ item.content.kind # Undefined

\* the 0-based index of the first item from index i on that the loop does
\* not skip, and the length of the array when it skips them all
RECURSIVE NextItem(_, _)
NextItem(items, i) ==
  IF i >= Len(items) THEN Len(items)
  ELSE IF IsBlock(items[i + 1]) THEN i
  ELSE NextItem(items, i + 1)

\* the nested call that counts the blocks it has entered instead of the
\* items of the array
RECURSIVE BlocksBefore(_, _)
BlocksBefore(items, i) ==
  IF i = 0 THEN 0
  ELSE BlocksBefore(items, i - 1) + (IF IsBlock(items[i]) THEN 1 ELSE 0)

NestedCallPacked(l, i) ==
  LET item == l.items[i + 1]
      childGroupId ==
        IF item.groupId # Null THEN item.groupId
        ELSE Append(l.parentGroupId, BlocksBefore(l.items, i))
  IN  Call([item EXCEPT !.groupId = childGroupId], l.shouldUpdate, l.api)

\* the nested call for the item at 0-based index i of the multi loop l
\* (lines 583-601)
NestedCall(l, i) ==
  LET item == l.items[i + 1]
      childGroupId ==
        IF item.groupId # Null THEN item.groupId ELSE Append(l.parentGroupId, i)
  IN  Call([item EXCEPT !.groupId = childGroupId], l.shouldUpdate, l.api)

\* control after a handleAIResponse has returned: the next item of the
\* awaiting loop is entered in the same turn, or processTranscript ends
Return(by) ==
  /\ ended' = [kind |-> "ended", by |-> by, raised |-> FALSE, api |-> call.api]
  /\ IF loop.kind = "loop" /\ NextItem(loop.items, loop.index) < Len(loop.items)
     THEN /\ call' = NestedCall(loop, NextItem(loop.items, loop.index))
          /\ loop' = [loop EXCEPT !.index = NextItem(loop.items, loop.index) + 1]
          /\ pc' = "enter"
          /\ UNCHANGED inflight
     ELSE /\ call' = None
          /\ loop' = None
          /\ pc' = "idle"
          /\ inflight' = None

\* the component as processTranscript finds it at its start: what a later
\* block would be classified from had this block never been submitted
Snapshot ==
  [kind |-> "prior", state |-> "running", cause |-> "none", t |-> 0,
   topicToGroupId |-> topicToGroupId, currentGroupId |-> currentGroupId,
   conversationHistory |-> conversationHistory]

\* the block being processed ends with an error: the answer that is not ok
\* (QUICK_FIXES.md lines 581-584 and 781-790), the error card (lines
\* 1238-1316) or the exception of handleAIResponse
Failed(cause) ==
  prior' = IF prior.kind = "prior" /\ prior.state = "running"
           THEN [prior EXCEPT !.state = "failed", !.cause = cause]
           ELSE prior

\* the next block starts, and is classified at time t
Started ==
  prior' = IF prior.kind = "prior" /\ prior.state = "failed"
           THEN [prior EXCEPT !.state = "after"]
           ELSE Snapshot

Classified(t) ==
  prior' = IF prior.kind = "prior" /\ prior.state = "after"
           THEN [prior EXCEPT !.state = "classified", !.t = t]
           ELSE prior

\* control after a handleAIResponse has thrown: the exception leaves the
\* awaiting loop too and processTranscript catches it (QUICK_FIXES.md lines
\* 776-779)
Raise(by) ==
  /\ ended' = [kind |-> "ended", by |-> by, raised |-> TRUE, api |-> call.api]
  /\ Failed("rendering")
  /\ call' = None
  /\ loop' = None
  /\ pc' = "idle"
  /\ inflight' = None

\* ---- the utterances and the server's answers the behaviours draw from

GroupOwn == <<"own">>

NoteLoginFlowA == Block("note", Null, StrContent(<<"L","o","g","i","n"," ","f","l","o","w","\n"," ","a">>), Null)
NoteLoginFlowB == Block("note", <<"L","o","g","i","n"," ","F","l","o","w">>, ArrContent(<<<<"b">>>>), Null)
NotePlan == Block("note", <<"P","l","a","n">>, StrContent(<<"@"," ","a">>), Null)
DiagramPlan == Block("diagram", Null, StrContent(<<"A">>), Null)
DiagramAuth == Block("diagram", <<"A","u","t","h">>, StrContent(<<"@","A">>), Null)
DiagramBroken == Block("diagram", Null, StrContent(<<"B">>), Null)
DiagramEmpty == Block("diagram", Null, StrContent(<<"E">>), Null)
NoteLoginPage == Block("note", <<"L","o","g","i","n"," ","P","a","g","e">>, StrContent(<<"c">>), Null)
NoteOwn == Block("note", Null, StrContent(<<"a">>), GroupOwn)
NoteOwnTitled == Block("note", <<"O","w","n">>, ArrContent(<<<<"a">>, <<"b">>>>), GroupOwn)
MultiPlan == Block("multi", Null, ItemsContent(<<NotePlan, DiagramPlan>>), Null)
DiagramBrokenTitled == Block("diagram", <<"F","l","o","w">>, StrContent(<<"B">>), Null)
DiagramObject == Block("diagram", Null, ObjContent, Null)
MultiOwn == Block("multi", <<"T","w","i","n","s">>, ItemsContent(<<NoteOwn, NoteOwn>>), Null)

\* answers the route has to repair: a kind that is none of the three, with
\* a string and with an object as content; a multi block whose content is
\* a string or an object; and a multi block that nests a block of an
\* unknown kind
ListString == Block("list", <<"L","i","s","t">>, StrContent(<<"a">>), Null)
ListObject == Block("list", <<"L","i","s","t">>, ObjContent, Null)
MultiString == Block("multi", Null, StrContent(<<"a">>), Null)
MultiObject == Block("multi", Null, ObjContent, Null)
MultiNestsList == Block("multi", Null, ItemsContent(<<NoteOwn, ListString>>), Null)

Request(text, ok, response) == [text |-> text, ok |-> ok, response |-> response]

\* the requests of SpecScene: notes, diagrams that parse, that parse once
\* cleaned, that do not parse and that parse to nothing, multi blocks, and
\* an answer that is not ok
Requests ==
  { Request(<<"l","o","g","i","n"," ","f","l","o","w">>, TRUE, NoteLoginFlowA),
    Request(<<"u","p","d","a","t","e"," ","l","o","g","i","n"," ","f","l","o","w">>, TRUE, NoteLoginFlowB),
    Request(<<"d","r","a","w"," ","p","l","a","n">>, TRUE, MultiPlan),
    Request(<<"c","h","a","n","g","e"," ","p","l","a","n">>, TRUE, MultiPlan),
    Request(<<"d","r","a","w"," ","a","u","t","h">>, TRUE, DiagramAuth),
    Request(<<"d","r","a","w"," ","i","t">>, TRUE, DiagramBroken),
    Request(<<"d","r","a","w"," ","n","o","t","h","i","n","g">>, TRUE, DiagramEmpty),
    Request(<<"t","w","i","n","s">>, TRUE, MultiOwn),
    Request(<<"n","o","i","s","e">>, FALSE, NoteOwn) }

\* the requests of SpecFaults: diagrams that do not parse, with and without
\* a title, that parse once cleaned and that parse to nothing, a diagram
\* whose content is not a string, a multi block that is drawn and then
\* updated, and an answer that is not ok
FaultRequests ==
  { Request(<<"d","r","a","w"," ","i","t">>, TRUE, DiagramBroken),
    Request(<<"d","r","a","w"," ","f","l","o","w">>, TRUE, DiagramBrokenTitled),
    Request(<<"d","r","a","w"," ","a","u","t","h">>, TRUE, DiagramAuth),
    Request(<<"d","r","a","w"," ","n","o","t","h","i","n","g">>, TRUE, DiagramEmpty),
    Request(<<"d","r","a","w"," ","p","l","a","n">>, TRUE, MultiPlan),
    Request(<<"c","h","a","n","g","e"," ","p","l","a","n">>, TRUE, MultiPlan),
    Request(<<"d","r","a","w"," ","o","b","j","e","c","t">>, TRUE, DiagramObject),
    Request(<<"n","o","i","s","e">>, FALSE, NoteOwn) }

\* the requests of SpecNotes: notes on one topic and on a topic that
\* matches it by its words, with and without a strong cue, a weak cue and
\* an explicit-new cue
NoteRequests ==
  { Request(<<"l","o","g","i","n"," ","f","l","o","w">>, TRUE, NoteLoginFlowA),
    Request(<<"u","p","d","a","t","e"," ","l","o","g","i","n"," ","f","l","o","w">>, TRUE, NoteLoginFlowB),
    Request(<<"A","c","t","u","a","l","l","y"," ","a"," ","n","e","w"," ","l","o","g","i","n"," ","f","l","o","w">>, TRUE, NoteLoginFlowB),
    Request(<<"a","n","o","t","h","e","r"," ","l","o","g","i","n"," ","f","l","o","w">>, TRUE, NoteLoginFlowA),
    Request(<<"a","l","s","o"," ","a","d","d"," ","t","h","e"," ","l","o","g","i","n">>, TRUE, NoteLoginFlowA),
    Request(<<"m","o","d","i","f","y"," ","l","o","g","i","n"," ","p","a","g","e">>, TRUE, NoteLoginPage),
    Request(<<"n","o","i","s","e">>, FALSE, NoteOwn) }

\* ---- the component

SceneIdle ==
  /\ scene = <<>>
  /\ excalidrawAPI = "undefined"
  /\ topicToGroupId = <<>>
  /\ currentGroupId = <<"group", 0>>
  /\ continuousMode = TRUE
  /\ conversationHistory = <<>>
  /\ now = 0
  /\ pc = "idle"
  /\ inflight = None
  /\ call = None
  /\ loop = None
  /\ rafQueue = <<>>
  /\ invocations = 0
  /\ decision = None
  /\ event = None
  /\ runs = <<>>
  /\ removedKeys = {}
  /\ ended = None
  /\ prior = None

\* the handles Excalidraw may pass to the canvas wrapper's callback: the
\* complete one, and handles that lack a method
ApiHandles == {"ready", "noGetSceneElements", "noUpdateScene"}

\* a handle the guard of handleAIResponse lets through whatever it lacks
ApiUsableUnlessAbsent(api) == api # "undefined"

\* lines 562-571: the handle is there and has both methods
ApiUsable(api) == api = "ready"

\* handleExcalidrawAPI(api) of the canvas wrapper for a handle that is not
\* null (part_000 lines 18-31): only a handle with both methods is
\* published on window
HandleExcalidrawAPI ==
  /\ UNCHANGED outside
  /\ \E api \in ApiHandles :
       excalidrawAPI' = IF api = "ready" THEN "ready" ELSE excalidrawAPI
  /\ UNCHANGED <<scene, topicToGroupId, currentGroupId, continuousMode,
                 conversationHistory, now, pc, inflight, call, loop, rafQueue,
                 invocations, decision, prior, ended, event, removedKeys, runs>>

\* handleAIResponse with a handle that is absent or lacks a method: lines
\* 562-571
GuardReturn ==
  /\ UNCHANGED outside
  /\ pc = "enter"
  /\ ~ApiUsable(call.api)
  /\ invocations' = invocations + 1
  /\ Return(invocations')
  /\ UNCHANGED <<scene, excalidrawAPI, topicToGroupId, currentGroupId,
                 continuousMode, conversationHistory, now, rafQueue, decision, prior,
                 event, removedKeys, runs>>

\* the Continuous mode checkbox
SetContinuousMode ==
  /\ UNCHANGED outside
  /\ \E checked \in BOOLEAN : checked # continuousMode /\ continuousMode' = checked
  /\ UNCHANGED <<scene, excalidrawAPI, topicToGroupId, currentGroupId,
                 conversationHistory, now, pc, inflight, call, loop, rafQueue,
                 invocations, decision, prior, ended, event, removedKeys, runs>>

\* String(aiResponse.content) of a content that is not an array
StringOf(content) ==
  IF content.kind = "string" THEN content.str ELSE ObjectString

\* the server's final structure validation of the model's answer
\* (part_001 lines 207-216)
FinalStructureValidation(aiResponse) ==
  LET typed == IF aiResponse.type \in {"note", "diagram", "multi"}
               THEN aiResponse ELSE [aiResponse EXCEPT !.type = "note"]
  IN  IF typed.type = "multi" /\ typed.content.kind \notin {"array", "items"}
      THEN [typed EXCEPT !.type = "note",
                         !.content = StrContent(StringOf(typed.content))]
      ELSE typed

\* processTranscript(text) up to the await of fetch (lines 552-579); the
\* request carries the answer the model will give, the payload is what the
\* server makes of it
Submit(req) ==
  /\ UNCHANGED outside
  /\ pc = "idle"
  /\ UserCount(conversationHistory) < MaxBlocks
  /\ trim(req.text) # <<>>
  /\ conversationHistory' = Append(conversationHistory, UserMessage)
  /\ inflight' = [kind |-> "request", text |-> req.text, ok |-> req.ok,
                  answer |-> req.response,
                  payload |-> FinalStructureValidation(req.response),
                  conversationHistory |-> conversationHistory,
                  continuousMode |-> continuousMode]
  /\ pc' = "fetch"
  /\ Started
  /\ UNCHANGED <<scene, topicToGroupId, currentGroupId, continuousMode, excalidrawAPI, now,
                 call, loop, rafQueue, invocations, decision, ended, event, removedKeys, runs>>

\* processTranscript from the server's answer to the call of
\* handleAIResponse (lines 581-775); an answer that is not ok ends it, and
\* so does a canvas that has not published its handle (lines 616-621).
\* The registry and the current group id of the closure are the
\* component's, no other handler having changed them since.
Receive ==
  /\ UNCHANGED outside
  /\ pc = "fetch"
  /\ now' = now + 1
  /\ IF ~inflight.ok
     THEN /\ pc' = "idle"
          /\ inflight' = None
          /\ Failed("answer")
          /\ UNCHANGED <<conversationHistory, topicToGroupId, currentGroupId,
                         call, decision>>
     ELSE IF excalidrawAPI = "undefined"
     THEN /\ conversationHistory' =
               inflight.conversationHistory
               \o <<UserMessage, AssistantMessage(inflight.payload)>>
          /\ pc' = "idle"
          /\ inflight' = None
          /\ UNCHANGED <<topicToGroupId, currentGroupId, call, decision, prior>>
     ELSE LET aiResponse == inflight.payload
              d == Classify(inflight.text, aiResponse, topicToGroupId,
                            currentGroupId, inflight.continuousMode,
                            HasPreviousUser(inflight.conversationHistory),
                            PreviousType(inflight.conversationHistory), now')
          IN  /\ conversationHistory' =
                   inflight.conversationHistory
                   \o <<UserMessage, AssistantMessage(aiResponse)>>
              /\ topicToGroupId' = d.topicToGroupId
              /\ currentGroupId' = d.currentGroupId
              /\ decision' = Observed(d, inflight.text, aiResponse, topicToGroupId,
                                       currentGroupId, inflight.continuousMode,
                                       PreviousType(inflight.conversationHistory))
              /\ call' = Call([aiResponse EXCEPT !.groupId = d.groupIdToUse],
                               d.isUpdate, excalidrawAPI)
              /\ pc' = "enter"
              /\ Classified(now')
              /\ UNCHANGED inflight
  /\ UNCHANGED <<scene, continuousMode, excalidrawAPI, loop, rafQueue, invocations, event,
                 removedKeys, runs, ended>>

\* ---- handleAIResponse

\* lines 573-604 up to the first nested call
EnterMulti ==
  /\ UNCHANGED outside
  /\ pc = "enter"
  /\ ApiUsable(call.api)
  /\ call.response.type = "multi"
  /\ invocations' = invocations + 1
  /\ \E rs \in Draws(1) :
       LET response == call.response
           items == IF response.content.kind = "items"
                    THEN response.content.items ELSE <<>>
           parentGroupId == IF response.groupId # Null THEN response.groupId
                            ELSE makeId("group", now, rs[1])
           l == [kind |-> "loop", response |-> response,
                 parentGroupId |-> parentGroupId,
                 items |-> items, index |-> 0, shouldUpdate |-> call.shouldUpdate,
                 api |-> call.api]
       IN  IF NextItem(items, 0) < Len(items)
           THEN /\ call' = NestedCall(l, NextItem(items, 0))
                /\ loop' = [l EXCEPT !.index = NextItem(items, 0) + 1]
                /\ pc' = "enter"
                /\ UNCHANGED <<inflight, ended>>
           ELSE Return(invocations')
  /\ UNCHANGED <<scene, topicToGroupId, currentGroupId, continuousMode, excalidrawAPI,
                 conversationHistory, now, rafQueue, decision, prior, event,
                 removedKeys, runs>>

\* the commit of a note whose elements the host has not applied when the
\* deferred commit is registered
PushNoteUnapplied(c, currentElements, newElements) ==
  /\ scene' = currentElements
  /\ rafQueue' = Append(rafQueue, [ids |-> NoteConfirmIds(newElements), by |-> c.by])
  /\ event' = Event("noteCommit", c, scene, currentElements, currentElements,
                    newElements)
  /\ runs' = AddRun(Run(c, Len(currentElements)))
  /\ UNCHANGED <<removedKeys, prior>>

\* lines 750-789: the commit of a note's new elements on the collection
\* read at line 693 and the registration of the deferred commit
PushNote(c, currentElements, newElements) ==
  /\ scene' = currentElements \o newElements
  /\ rafQueue' = Append(rafQueue, [ids |-> NoteConfirmIds(newElements), by |-> c.by])
  /\ event' = Event("noteCommit", c, scene, currentElements \o newElements,
                    currentElements, newElements)
  /\ runs' = AddRun(Run(c, Len(currentElements) + Len(newElements)))
  /\ UNCHANGED <<removedKeys, prior>>

\* lines 677-791 for the call c and Date.now() = t
CommitNoteOn(c, currentElements, t, rs) ==
  PushNote(c, currentElements,
           NoteElements(c.response, c.contentText,
                        NotePosition(c.response, c.contentText, currentElements),
                        t, rs, c.by))

CommitNote(c, t) ==
  \E rs \in Draws(3) :
    CommitNoteOn(c, NoteCurrentElements(scene, c.existingElements), t, rs)

\* lines 677-791: `contentText.split` of line 679 throws when contentText
\* is not a string, before anything is committed
NoteFinish(c, t) ==
  IF c.contentText = NotAString
  THEN /\ Raise(c.by)
       /\ UNCHANGED <<scene, rafQueue, event, runs, removedKeys>>
  ELSE /\ CommitNote(c, t)
       /\ Return(c.by)

\* lines 616-618: the existing note the new one is taken to replace, looked
\* for when the caller neither forces an update nor names a group
SimilarNote(c, existingElements) ==
  IF /\ ~c.shouldUpdate
     /\ c.response.groupId = Null
     /\ NoteContentText(c.response.content) # NotAString
  THEN findSimilarNote(NoteContentText(c.response.content), existingElements)
  ELSE [kind |-> "unsearched"]

\* lines 616-623: the parameters after the search
Resolved(c, existingElements) ==
  IF SimilarNote(c, existingElements).kind = "match"
  THEN [c EXCEPT !.response.groupId = SimilarNote(c, existingElements).groupId,
                 !.shouldUpdate = TRUE,
                 !.similar = SimilarNote(c, existingElements)]
  ELSE [c EXCEPT !.similar = SimilarNote(c, existingElements)]

\* a block that is neither a multi block nor a note nor a diagram: none of
\* the branches of lines 576, 606 and 793 is taken and the function ends
EnterUnknown ==
  /\ UNCHANGED outside
  /\ pc = "enter"
  /\ ApiUsable(call.api)
  /\ call.response.type \notin {"multi", "note", "diagram"}
  /\ invocations' = invocations + 1
  /\ Return(invocations')
  /\ UNCHANGED <<scene, excalidrawAPI, topicToGroupId, currentGroupId,
                 continuousMode, conversationHistory, now, rafQueue, decision,
                 prior, event, removedKeys, runs>>

\* a note that is not an update: lines 573-791 in one turn
NoteNew(c) ==
  /\ ~(c.shouldUpdate /\ c.response.groupId # Null)
  /\ invocations' = invocations + 1
  /\ NoteFinish([c EXCEPT !.by = invocations', !.existingElements = scene,
                          !.contentText =
                            EnsureBullets(NoteContentText(c.response.content))],
                now)

\* a note that is not an update, or that no existing note resembles
EnterNoteNew ==
  /\ UNCHANGED outside
  /\ pc = "enter"
  /\ ApiUsable(call.api)
  /\ call.response.type = "note"
  /\ NoteNew(Resolved(call, scene))
  /\ UNCHANGED <<topicToGroupId, currentGroupId, continuousMode, excalidrawAPI,
                 conversationHistory, now, decision>>

\* a note update up to the wait after the deletion commit: lines 573-674
NoteUpdate(c) ==
  /\ c.shouldUpdate /\ c.response.groupId # Null
  /\ invocations' = invocations + 1
  /\ LET filteredElements == NoteDeletion(scene, c.response.groupId)
     IN  /\ scene' = filteredElements
         /\ call' = [c EXCEPT
                       !.by = invocations', !.existingElements = scene,
                       !.contentText =
                         EnsureBullets(NoteContentText(c.response.content)),
                       !.deleted = TRUE,
                       !.removed = Keys(scene) \ Keys(filteredElements)]
         /\ event' = Event("noteDeletion", call', scene, filteredElements, scene, <<>>)
         /\ removedKeys' = removedKeys \cup (Keys(scene) \ Keys(filteredElements))
  /\ pc' = "noteWait"

\* a note update, forced by the caller or found by findSimilarNote
EnterNoteUpdate ==
  /\ UNCHANGED outside
  /\ pc = "enter"
  /\ ApiUsable(call.api)
  /\ call.response.type = "note"
  /\ NoteUpdate(Resolved(call, scene))
  /\ UNCHANGED <<topicToGroupId, currentGroupId, continuousMode, excalidrawAPI,
                 conversationHistory, now, inflight, loop, rafQueue, decision, prior, ended, runs>>

\* a note update after the wait: lines 677-791
NoteCommit ==
  /\ UNCHANGED outside
  /\ pc = "noteWait"
  /\ now' = now + 1
  /\ NoteFinish(call, now')
  /\ UNCHANGED <<topicToGroupId, currentGroupId, continuousMode, excalidrawAPI,
                 conversationHistory, invocations, decision>>

\* a diagram up to the await of the parser: lines 573-813.  A content that
\* is not a string has no `substring` (line 798); the catch block throws
\* for the same reason at line 1262, before its commit.
EnterDiagram ==
  /\ UNCHANGED outside
  /\ pc = "enter"
  /\ ApiUsable(call.api)
  /\ call.response.type = "diagram"
  /\ invocations' = invocations + 1
  /\ IF DiagramContent(call.response.content) = NotAString
     THEN Raise(invocations')
     ELSE /\ call' = [call EXCEPT
                        !.by = invocations', !.existingElements = scene,
                        !.contentText = DiagramContent(call.response.content)]
          /\ pc' = "parse"
          /\ UNCHANGED <<inflight, loop, ended, prior>>
  /\ UNCHANGED <<scene, topicToGroupId, currentGroupId, continuousMode, excalidrawAPI,
                 conversationHistory, now, rafQueue, decision, event,
                 removedKeys, runs>>

\* an error card committed in place of the scene
PushErrorAlone(c, currentElements, errorElements) ==
  /\ scene' = errorElements
  /\ event' = Event("errorCard", c, scene, errorElements, currentElements,
                    errorElements)
  /\ runs' = AddRun(Run(c, Len(errorElements)))
  /\ Failed("rendering")
  /\ UNCHANGED <<rafQueue, removedKeys>>

\* lines 1305-1313: the commit of the error card, with no deferred commit
PushError(c, currentElements, errorElements) ==
  /\ scene' = currentElements \o errorElements
  /\ event' = Event("errorCard", c, scene, currentElements \o errorElements,
                    currentElements, errorElements)
  /\ runs' = AddRun(Run(c, Len(currentElements) + Len(errorElements)))
  /\ Failed("rendering")
  /\ UNCHANGED <<rafQueue, removedKeys>>

\* the catch block, lines 1238-1316
ErrorCard(c, message, t) ==
  \E rs \in Draws(3) :
    PushError(c, scene,
              ErrorElements(c.response, message, ErrorPosition(c.response, scene),
                            t, rs, c.by))

\* lines 1195-1234: the commit of a diagram's elements on baseElements and
\* the registration of the deferred commit, or the error card when no
\* element is valid
PushDiagram(c, baseElements, validElements, t) ==
  IF validElements = <<>>
  THEN ErrorCard(c, NoValidElementsMessage, t)
  ELSE /\ scene' = baseElements \o validElements
       /\ rafQueue' = Append(rafQueue, [ids |-> DiagramConfirmIds(validElements),
                                        by |-> c.by])
       /\ event' = Event("diagramCommit", c, scene, baseElements \o validElements,
                         baseElements, validElements)
       /\ runs' = AddRun(Run(c, Len(baseElements) + Len(validElements)))
       /\ UNCHANGED <<removedKeys, prior>>

\* lines 904-1236 for the parsed elements and the base collection
CommitDiagram(c, elements, baseElements, t) ==
  \E rs \in Draws(ShapeCount(elements) + 1) :
    PushDiagram(c, baseElements,
                DiagramElements(c.response, elements, baseElements, t, rs, c.by), t)

\* lines 843-1236 once the parser has returned elements: the error card for
\* none, the deletion commit of an update that removes something, or the
\* commit on the collection read at entry
AfterParse(c, elements, t) ==
  LET groupId == c.response.groupId
      filtered == DiagramDeletion(c.existingElements, groupId)
  IN  IF elements = <<>>
      THEN /\ ErrorCard(c, NoElementsMessage, t)
           /\ Return(c.by)
      ELSE IF /\ c.shouldUpdate /\ groupId # Null
              /\ Len(filtered) # Len(c.existingElements)
      THEN /\ scene' = filtered
           /\ call' = [c EXCEPT !.elements = elements, !.deleted = TRUE,
                                !.removed = Keys(scene) \ Keys(filtered)]
           /\ event' = Event("diagramDeletion", call', scene, filtered,
                             c.existingElements, <<>>)
           /\ removedKeys' = removedKeys \cup (Keys(scene) \ Keys(filtered))
           /\ pc' = "diagramWait"
           /\ UNCHANGED <<inflight, loop, rafQueue, runs, ended, prior>>
      ELSE /\ CommitDiagram(c, elements,
                            DiagramBaseElements(scene, c.existingElements, FALSE), t)
           /\ Return(c.by)

\* the first parse succeeds (line 813)
ParseSucceeds ==
  /\ UNCHANGED outside
  /\ pc = "parse"
  /\ parseMermaidToExcalidraw(call.contentText).ok
  /\ \E dt \in ParseDelays : now' = now + dt
  /\ AfterParse([call EXCEPT !.parses = @ + 1],
                parseMermaidToExcalidraw(call.contentText).elements, now')
  /\ UNCHANGED <<topicToGroupId, currentGroupId, continuousMode, excalidrawAPI,
                 conversationHistory, invocations, decision>>

\* the first parse throws: the cleaned content is parsed (lines 814-834)
ParseFails ==
  /\ UNCHANGED outside
  /\ pc = "parse"
  /\ ~parseMermaidToExcalidraw(call.contentText).ok
  /\ \E dt \in ParseDelays : now' = now + dt
  /\ call' = [call EXCEPT !.contentText = CleanedContent(call.contentText),
                          !.parses = @ + 1]
  /\ pc' = "retry"
  /\ UNCHANGED <<scene, topicToGroupId, currentGroupId, continuousMode, excalidrawAPI,
                 conversationHistory, inflight, loop, rafQueue, invocations,
                 decision, prior, ended, event, removedKeys, runs>>

\* the second parse returns or throws (lines 833-841)
RetryDone ==
  /\ UNCHANGED outside
  /\ pc = "retry"
  /\ \E dt \in ParseDelays : now' = now + dt
  /\ IF parseMermaidToExcalidraw(call.contentText).ok
     THEN AfterParse([call EXCEPT !.parses = @ + 1],
                     parseMermaidToExcalidraw(call.contentText).elements, now')
     ELSE /\ ErrorCard([call EXCEPT !.parses = @ + 1], ParseErrorMessage, now')
          /\ Return(call.by)
  /\ UNCHANGED <<topicToGroupId, currentGroupId, continuousMode, excalidrawAPI,
                 conversationHistory, invocations, decision>>

\* a diagram update after the wait: lines 898-1236
DiagramCommit ==
  /\ UNCHANGED outside
  /\ pc = "diagramWait"
  /\ now' = now + 1
  /\ CommitDiagram(call, call.elements,
                   DiagramBaseElements(scene, call.existingElements, TRUE), now')
  /\ Return(call.by)
  /\ UNCHANGED <<topicToGroupId, currentGroupId, continuousMode, excalidrawAPI,
                 conversationHistory, invocations, decision>>

\* how many elements the user draws in a behaviour
MaxDrawn == 1

\* the elements of els the user drew
Drawn(els) ==
  LET ByUser(el) == Head(el.id) = "user" IN SelectSeq(els, ByUser)

\* the user draws a rectangle on the canvas: Excalidraw adds it to its
\* scene, whatever handleAIResponse is waiting for
UserDraws ==
  /\ UNCHANGED outside
  /\ Len(Drawn(scene)) < MaxDrawn
  /\ scene' = Append(scene, Element(<<"user", Len(Drawn(scene))>>, "rectangle",
                                    0, 900, 10, 10, Null, <<>>, FALSE))
  /\ UNCHANGED <<topicToGroupId, currentGroupId, continuousMode, excalidrawAPI,
                 conversationHistory, now, pc, inflight, call, loop, rafQueue,
                 invocations, decision, prior, ended, event, removedKeys, runs>>

\* the element the deferred commit puts in place of el (lines 771-780 and
\* 1216-1225)
ForceRender(el, ids, t) ==
  IF el.type = "text" /\ el.id \in ids
  THEN [el EXCEPT !.version = @ + 2, !.updated = t,
                  !.baseline = IF el.fontSize = 0 THEN 20 ELSE el.fontSize]
  ELSE el

\* the host runs the oldest registered animation-frame callback, between
\* two turns of the event loop: the deferred commit (lines 766-789 and
\* 1209-1234)
Confirm ==
  /\ UNCHANGED outside
  /\ rafQueue # <<>>
  /\ pc # "enter"
  /\ LET currentSceneElements == scene
         ids == Head(rafQueue).ids
     IN  /\ scene' = [i \in 1..Len(currentSceneElements) |->
                        ForceRender(currentSceneElements[i], ids, now)]
         /\ event' = [kind |-> "confirm", by |-> Head(rafQueue).by, ids |-> ids,
                      groupId |-> Null,
                      response |-> None, shouldUpdate |-> FALSE, entry |-> <<>>,
                      removed |-> {}, before |-> scene, after |-> scene',
                      base |-> currentSceneElements, created |-> <<>>]
  /\ rafQueue' = Tail(rafQueue)
  /\ UNCHANGED removedKeys
  /\ UNCHANGED <<topicToGroupId, currentGroupId, continuousMode, excalidrawAPI,
                 conversationHistory, now, pc, inflight, call, loop,
                 invocations, decision, prior, ended, runs>>

\* the whole machine, the user leaving Continuous mode checked
NextScene ==
  \/ HandleExcalidrawAPI
  \/ \E req \in Requests : Submit(req)
  \/ Receive
  \/ EnterMulti
  \/ EnterNoteNew
  \/ EnterNoteUpdate
  \/ NoteCommit
  \/ EnterDiagram
  \/ ParseSucceeds
  \/ ParseFails
  \/ RetryDone
  \/ DiagramCommit
  \/ Confirm

\* the whole machine on the requests that end in an error
NextFaults ==
  \/ HandleExcalidrawAPI
  \/ \E req \in FaultRequests : Submit(req)
  \/ Receive
  \/ EnterMulti
  \/ EnterNoteNew
  \/ EnterNoteUpdate
  \/ NoteCommit
  \/ EnterDiagram
  \/ ParseSucceeds
  \/ ParseFails
  \/ RetryDone
  \/ DiagramCommit
  \/ Confirm

\* notes only, the user switching Continuous mode at will
NextNotes ==
  \/ HandleExcalidrawAPI
  \/ SetContinuousMode
  \/ \E req \in NoteRequests : Submit(req)
  \/ Receive
  \/ EnterNoteNew
  \/ EnterNoteUpdate
  \/ NoteCommit
  \/ Confirm

----------------------------------------------------------------------------
(* SpecCaller: useVoiceRecognition and the handlers of VoiceCommandCenter  *)
(* that start and stop the recognizer and call processTranscript.          *)
(*                                                                         *)
(* Every render makes new callbacks: the hook's options object is new in   *)
(* every render, so resetSilenceTimeout, startListening and                *)
(* processTranscript are too.  A callback reads the state of the render    *)
(* that made it; that state is its closure.  A handler the user or a ref   *)
(* reaches is the one of the latest render.  processTranscript is followed *)
(* from its call to its finally block; what it does to the scene in        *)
(* between is the reconcile machine's matter.                              *)

\* how many recognizers startListening creates in a behaviour
MaxRecognizers == 2

\* how many times processTranscript is called in a behaviour
MaxFlights == 3

\* what the recognizer hears
Utterance == <<"h","i">>

\* the state the callbacks of the latest render read
Closure == [isListening |-> isListening, continuousMode |-> continuousMode]

CallerIdle ==
  /\ isListening = FALSE
  /\ transcript = <<>>
  /\ transcriptRef = <<>>
  /\ recognitionRef = 0
  /\ silenceTimeoutRef = None
  /\ recognizers = <<>>
  /\ isProcessing = FALSE
  /\ shouldAutoRestartRef = TRUE
  /\ restartTimers = <<>>
  /\ flights = <<>>
  /\ started = 0
  /\ cleared = FALSE
  /\ stoppedByUser = FALSE

\* what no handler of the caller touches
reconcileVars ==
  <<layVars, rateVars, scene, excalidrawAPI, now, pc, inflight, call, loop, rafQueue, invocations,
    decision, event, runs, removedKeys, ended, prior>>

\* s without its i-th entry
RemoveAt(s, i) == [j \in 1..(Len(s) - 1) |-> IF j < i THEN s[j] ELSE s[j + 1]]

\* recognitionRef.current.stop() followed by recognitionRef.current = null,
\* when there is a current recognizer: a recognizer that is starting or
\* running will end
StopCurrent(recs) ==
  IF recognitionRef # 0 /\ recs[recognitionRef].status \in {"starting", "running"}
  THEN [recs EXCEPT ![recognitionRef].status = "stopping"]
  ELSE recs

\* stopListening (lines 17-31), the recognizers being recs
stopListening(recs) ==
  /\ recognizers' = StopCurrent(recs)
  /\ recognitionRef' = 0
  /\ isListening' = FALSE
  /\ silenceTimeoutRef' = None

\* startListening of the render with the given closure (lines 49-153): the
\* current recognizer is stopped, a new one is created with its handlers
\* and started
startListening(closure) ==
  /\ recognizers' = Append(StopCurrent(recognizers),
                           [status |-> "starting", closure |-> closure])
  /\ recognitionRef' = Len(recognizers) + 1

\* resetSilenceTimeout of the render with the given closure (lines 33-47)
resetSilenceTimeout(closure) ==
  silenceTimeoutRef' = [kind |-> "timer", closure |-> closure]

\* processTranscript of the render with the given closure, called with a
\* text that is not blank, up to its await of fetch (lines 552-569)
processTranscript(closure) ==
  /\ isProcessing' = TRUE
  /\ conversationHistory' = Append(conversationHistory, UserMessage)
  /\ flights' = Append(flights, [closure |-> closure,
                                 conversationHistory |-> conversationHistory,
                                 topicToGroupId |-> topicToGroupId,
                                 currentGroupId |-> currentGroupId])
  /\ started' = started + 1

\* handleToggleListening of the latest render (lines 804-815)
handleToggleListening ==
  IF isListening
  THEN /\ shouldAutoRestartRef' = FALSE
       /\ stoppedByUser' = TRUE
       /\ stopListening(recognizers)
       /\ IF trim(transcript) # <<>>
          THEN /\ started < MaxFlights
               /\ processTranscript(Closure)
          ELSE UNCHANGED <<isProcessing, conversationHistory, flights, started>>
       /\ UNCHANGED <<transcript, transcriptRef, restartTimers>>
  ELSE /\ Len(recognizers) < MaxRecognizers
       /\ shouldAutoRestartRef' = TRUE
       /\ stoppedByUser' = FALSE
       /\ startListening(Closure)
       /\ UNCHANGED <<isListening, transcript, transcriptRef, silenceTimeoutRef,
                      isProcessing, conversationHistory, restartTimers, flights,
                      started>>

\* the microphone button, disabled while processing (line 939)
ClickMic ==
  /\ ~isProcessing
  /\ handleToggleListening
  /\ UNCHANGED <<reconcileVars, topicToGroupId, currentGroupId, continuousMode, cleared>>

\* Ctrl+Space (lines 817-831)
CtrlSpace ==
  /\ ~isProcessing
  /\ handleToggleListening
  /\ UNCHANGED <<reconcileVars, topicToGroupId, currentGroupId, continuousMode, cleared>>

\* the Continuous mode checkbox with the recognizer it may start
\* (lines 902-909)
ChangeContinuous ==
  /\ \E checked \in BOOLEAN :
       /\ checked # continuousMode
       /\ continuousMode' = checked
       /\ IF checked /\ ~isListening /\ ~isProcessing
          THEN /\ Len(recognizers) < MaxRecognizers
               /\ shouldAutoRestartRef' = TRUE
               /\ stoppedByUser' = FALSE
               /\ startListening(Closure)
          ELSE UNCHANGED <<shouldAutoRestartRef, recognizers, recognitionRef,
                           stoppedByUser>>
  /\ UNCHANGED <<reconcileVars, topicToGroupId, currentGroupId, conversationHistory,
                 isListening, transcript, transcriptRef, silenceTimeoutRef,
                 isProcessing, restartTimers, flights, started, cleared>>

\* handleClearHistory (lines 833-839); its button shows while the history
\* is not empty
ClearHistory ==
  /\ Len(conversationHistory) > 0
  /\ conversationHistory' = <<>>
  /\ currentGroupId' = <<"group", now>>
  /\ topicToGroupId' = <<>>
  /\ shouldAutoRestartRef' = TRUE
  /\ cleared' = TRUE
  /\ UNCHANGED <<stoppedByUser, reconcileVars, continuousMode, isListening, transcript,
                 transcriptRef, recognitionRef, silenceTimeoutRef, recognizers,
                 isProcessing, restartTimers, flights, started>>

\* recognition.onstart of recognizer r (lines 76-83)
OnStart(r) ==
  /\ recognizers[r].status = "starting"
  /\ recognizers' = [recognizers EXCEPT ![r].status = "running"]
  /\ isListening' = TRUE
  /\ transcript' = <<>>
  /\ transcriptRef' = <<>>
  /\ resetSilenceTimeout(recognizers[r].closure)
  /\ UNCHANGED <<reconcileVars, topicToGroupId, currentGroupId, continuousMode,
                 conversationHistory, recognitionRef, isProcessing,
                 shouldAutoRestartRef, restartTimers, flights, started, cleared,
                 stoppedByUser>>

\* recognition.onresult of recognizer r: the user has spoken (lines 85-98)
OnResult(r) ==
  /\ recognizers[r].status = "running"
  /\ transcript' = Utterance
  /\ transcriptRef' = Utterance
  /\ resetSilenceTimeout(recognizers[r].closure)
  /\ UNCHANGED <<reconcileVars, topicToGroupId, currentGroupId, continuousMode,
                 conversationHistory, isListening, recognitionRef, recognizers,
                 isProcessing, shouldAutoRestartRef, restartTimers, flights,
                 started, cleared,
                 stoppedByUser>>

\* recognition.onresult of recognizer r after its stop() was called: the
\* service returns the result of the audio captured so far before it ends
\* the recognizer (lines 85-98)
OnLateResult(r) ==
  /\ recognizers[r].status = "stopping"
  /\ transcript' = Utterance
  /\ transcriptRef' = Utterance
  /\ resetSilenceTimeout(recognizers[r].closure)
  /\ UNCHANGED <<reconcileVars, topicToGroupId, currentGroupId, continuousMode,
                 conversationHistory, isListening, recognitionRef, recognizers,
                 isProcessing, shouldAutoRestartRef, restartTimers, flights,
                 started, cleared,
                 stoppedByUser>>

\* recognition.onerror of recognizer r (lines 100-110); the recognizer
\* ends after an error.  A recoverable error is 'no-speech' or
\* 'audio-capture'.
OnError(r) ==
  /\ recognizers[r].status \in {"starting", "running"}
  /\ \E recoverable \in BOOLEAN :
       IF recoverable
       THEN /\ recognizers' = [recognizers EXCEPT ![r].status = "stopping"]
            /\ UNCHANGED <<recognitionRef, isListening, silenceTimeoutRef>>
       ELSE stopListening([recognizers EXCEPT ![r].status = "stopping"])
  /\ UNCHANGED <<reconcileVars, topicToGroupId, currentGroupId, continuousMode,
                 conversationHistory, transcript, transcriptRef, isProcessing,
                 shouldAutoRestartRef, restartTimers, flights, started, cleared,
                 stoppedByUser>>

\* recognition.onend of recognizer r, after a stop, an error or a
\* disconnection of the service (lines 112-134)
OnEnd(r) ==
  /\ recognizers[r].status \in {"running", "stopping"}
  /\ IF recognizers[r].closure.isListening
     THEN /\ recognizers' = [recognizers EXCEPT ![r].status = "starting"]
          /\ UNCHANGED <<isListening, recognitionRef, silenceTimeoutRef>>
     ELSE /\ recognizers' = [recognizers EXCEPT ![r].status = "ended"]
          /\ isListening' = FALSE
          /\ recognitionRef' = 0
          /\ silenceTimeoutRef' = None
  /\ UNCHANGED <<reconcileVars, topicToGroupId, currentGroupId, continuousMode,
                 conversationHistory, transcript, transcriptRef, isProcessing,
                 shouldAutoRestartRef, restartTimers, flights, started, cleared,
                 stoppedByUser>>

\* the 5 s timer fires (lines 38-46) and calls onAutoStop (lines 538-550);
\* processTranscriptRef.current is the processTranscript of the latest
\* render
SilenceTimeout ==
  /\ silenceTimeoutRef # None
  /\ IF silenceTimeoutRef.closure.isListening
     THEN /\ stopListening(recognizers)
          /\ IF trim(transcriptRef) # <<>> /\ silenceTimeoutRef.closure.continuousMode
             THEN /\ started < MaxFlights
                  /\ processTranscript(Closure)
             ELSE UNCHANGED <<isProcessing, conversationHistory, flights, started>>
     ELSE /\ silenceTimeoutRef' = None
          /\ UNCHANGED <<recognizers, recognitionRef, isListening, isProcessing,
                         conversationHistory, flights, started>>
  /\ UNCHANGED <<reconcileVars, topicToGroupId, currentGroupId, continuousMode,
                 transcript, transcriptRef, shouldAutoRestartRef, restartTimers,
                 cleared, stoppedByUser>>

\* the invocation i of processTranscript ends, with or without an answer
\* of the server (lines 606-614 and the finally block, lines 787-797)
Finish(i) ==
  /\ \E ok \in BOOLEAN :
       conversationHistory' =
         IF ok
         THEN flights[i].conversationHistory
              \o <<UserMessage, AssistantMessage([type |-> "note"])>>
         ELSE conversationHistory
  /\ flights' = RemoveAt(flights, i)
  /\ isProcessing' = FALSE
  /\ restartTimers' =
       IF flights[i].closure.continuousMode /\ shouldAutoRestartRef
       THEN Append(restartTimers, [closure |-> flights[i].closure])
       ELSE restartTimers
  /\ UNCHANGED <<reconcileVars, topicToGroupId, currentGroupId, continuousMode,
                 isListening, transcript, transcriptRef, recognitionRef,
                 silenceTimeoutRef, recognizers, shouldAutoRestartRef, started,
                 cleared, stoppedByUser>>

\* the answers of the server in a session: notes on two topics
NoteAuth == Block("note", <<"A","u","t","h">>, StrContent(<<"a">>), Null)
SessionAnswers == {NotePlan, NoteAuth}

\* the invocation i of processTranscript gets its answer and ends (lines
\* 581-797): an answer that is not ok, or the update detection on the
\* registry and the current group id of the render that made the
\* invocation, whose outcome it sets.  What the call of handleAIResponse
\* does to the scene in between is left to the reconcile machine, and so
\* is the clock: every group id allocated here is the one of time now.
Answer(i) ==
  /\ \E ok \in BOOLEAN, aiResponse \in SessionAnswers :
       IF ~ok
       THEN UNCHANGED <<conversationHistory, topicToGroupId, currentGroupId>>
       ELSE LET d == Classify(Utterance, aiResponse, flights[i].topicToGroupId,
                              flights[i].currentGroupId,
                              flights[i].closure.continuousMode,
                              HasPreviousUser(flights[i].conversationHistory),
                              PreviousType(flights[i].conversationHistory), now)
            IN  /\ conversationHistory' =
                     flights[i].conversationHistory
                     \o <<UserMessage, AssistantMessage(aiResponse)>>
                /\ topicToGroupId' = d.topicToGroupId
                /\ currentGroupId' = d.currentGroupId
  /\ flights' = RemoveAt(flights, i)
  /\ isProcessing' = FALSE
  /\ restartTimers' =
       IF flights[i].closure.continuousMode /\ shouldAutoRestartRef
       THEN Append(restartTimers, [closure |-> flights[i].closure])
       ELSE restartTimers
  /\ UNCHANGED <<reconcileVars, continuousMode, isListening, transcript,
                 transcriptRef, recognitionRef, silenceTimeoutRef, recognizers,
                 shouldAutoRestartRef, started, cleared,
                 stoppedByUser>>

\* the 800 ms timer i fires (lines 791-795): startListening of the render
\* that made the finished processTranscript
RestartTimer(i) ==
  /\ restartTimers' = RemoveAt(restartTimers, i)
  /\ IF shouldAutoRestartRef
     THEN /\ Len(recognizers) < MaxRecognizers
          /\ startListening(restartTimers[i].closure)
     ELSE UNCHANGED <<recognizers, recognitionRef>>
  /\ UNCHANGED <<reconcileVars, topicToGroupId, currentGroupId, continuousMode,
                 conversationHistory, isListening, transcript, transcriptRef,
                 silenceTimeoutRef, isProcessing, shouldAutoRestartRef, flights,
                 started, cleared,
                 stoppedByUser>>

NextCaller ==
  \/ ClickMic
  \/ CtrlSpace
  \/ ChangeContinuous
  \/ ClearHistory
  \/ \E r \in 1..Len(recognizers) : OnStart(r)
  \/ \E r \in 1..Len(recognizers) : OnResult(r)
  \/ \E r \in 1..Len(recognizers) : OnError(r)
  \/ \E r \in 1..Len(recognizers) : OnEnd(r)
  \/ SilenceTimeout
  \/ \E i \in 1..Len(flights) : Finish(i)
  \/ \E i \in 1..Len(restartTimers) : RestartTimer(i)

\* the caller with the results that arrive after a stop
NextHook ==
  \/ ClickMic
  \/ CtrlSpace
  \/ ChangeContinuous
  \/ ClearHistory
  \/ \E r \in 1..Len(recognizers) : OnStart(r)
  \/ \E r \in 1..Len(recognizers) : OnResult(r)
  \/ \E r \in 1..Len(recognizers) : OnLateResult(r)
  \/ \E r \in 1..Len(recognizers) : OnError(r)
  \/ \E r \in 1..Len(recognizers) : OnEnd(r)
  \/ SilenceTimeout
  \/ \E i \in 1..Len(flights) : Finish(i)
  \/ \E i \in 1..Len(restartTimers) : RestartTimer(i)

\* the caller with the update detection of every answer
NextSession ==
  \/ ClickMic
  \/ CtrlSpace
  \/ ChangeContinuous
  \/ ClearHistory
  \/ \E r \in 1..Len(recognizers) : OnStart(r)
  \/ \E r \in 1..Len(recognizers) : OnResult(r)
  \/ \E r \in 1..Len(recognizers) : OnError(r)
  \/ \E r \in 1..Len(recognizers) : OnEnd(r)
  \/ SilenceTimeout
  \/ \E i \in 1..Len(flights) : Answer(i)
  \/ \E i \in 1..Len(restartTimers) : RestartTimer(i)

----------------------------------------------------------------------------
(* SpecLayout: calculateSmartPosition on enumerated inputs *)

\* how many elements the enumerated existing collections hold at most
MaxLayEls == 2

LayGroups == {<<"group", 1>>, <<"group", 2>>}

\* the boxes the existing collections are built from: 100 x 100 rectangles
\* on a coarse grid, each tagged with one group
LayBoxes ==
  { Element(<<"rect", gx + 3 * gy, g[2]>>, "rectangle",
            300 * gx - 300, 300 * gy, 100, 100, Null, <<g>>, FALSE) :
      gx \in 0..2, gy \in 0..1, g \in LayGroups }

LaySeqs(n) ==
  { s \in [1..n -> LayBoxes] : \A i, j \in 1..n : i # j => s[i].id # s[j].id }

LayCollections == UNION { LaySeqs(n) : n \in 1..MaxLayEls }

LaySizes == { <<100, 100>>, <<440, 110>>, <<600, 400>> }

LayIdle ==
  /\ layEls = <<>> /\ layKind = "note" /\ layGroup = Null
  /\ laySize = <<0, 0>> /\ layPos = Null

InitLayout ==
  /\ SceneIdle
  /\ CallerIdle
  /\ RateIdle
  /\ layEls \in LayCollections
  /\ layKind \in {"note", "diagram"}
  /\ layGroup \in LayGroups \cup {Null, <<"group", 3>>}
  /\ laySize \in LaySizes
  /\ layPos = Null

LayoutPlace ==
  /\ layPos = Null
  /\ layPos' = calculateSmartPosition(layEls, layKind, layGroup, laySize[1], laySize[2])
  /\ UNCHANGED <<layEls, layKind, layGroup, laySize>>
  /\ UNCHANGED <<sceneVars, callerVars, rateVars>>

NextLayout == LayoutPlace

SpecLayout == InitLayout /\ [][NextLayout]_vars

InitScene ==
  /\ SceneIdle
  /\ LayIdle
  /\ CallerIdle
  /\ RateIdle

SpecScene == InitScene /\ [][NextScene]_vars

SpecNotes == InitScene /\ [][NextNotes]_vars

SpecFaults == InitScene /\ [][NextFaults]_vars

\* ---- handleAIResponse called directly, with any handle

\* the blocks of the direct calls: notes and a multi block of notes, with a
\* group id of their own
DirectResponses == {NoteOwn, NoteOwnTitled, MultiOwn}

\* the scenes of the direct calls: none, and the note of an earlier call
DirectScenes ==
  { <<>>,
    NoteElements(NoteOwn, EnsureBullets(NoteContentText(NoteOwn.content)),
                 [x |-> 0, y |-> 0], 0, <<0, 0, 0>>, 0) }

\* handleAIResponse(response, excalidrawAPI, [], undefined, shouldUpdate) is
\* about to run; decision keeps the scene of that moment
InitDirect ==
  /\ LayIdle
  /\ CallerIdle
  /\ RateIdle
  /\ scene \in DirectScenes
  /\ excalidrawAPI = "undefined"
  /\ topicToGroupId = <<>>
  /\ currentGroupId = <<"group", 0>>
  /\ continuousMode = TRUE
  /\ conversationHistory = <<>>
  /\ now = 1
  /\ pc = "enter"
  /\ inflight = None
  /\ call \in {Call(r, u, a) : r \in DirectResponses, u \in BOOLEAN,
                               a \in ApiHandles \cup {"undefined"}}
  /\ loop = None
  /\ rafQueue = <<>>
  /\ invocations = 0
  /\ decision = [kind |-> "direct", scene |-> scene]
  /\ event = None
  /\ runs = <<>>
  /\ removedKeys = {}
  /\ ended = None
  /\ prior = None

NextDirect ==
  \/ GuardReturn
  \/ EnterMulti
  \/ EnterNoteNew
  \/ EnterNoteUpdate
  \/ NoteCommit
  \/ Confirm

SpecDirect == InitDirect /\ [][NextDirect]_vars

SpecCaller == InitScene /\ [][NextCaller]_vars

----------------------------------------------------------------------------
(* SpecRate: the requests of two clients to the route *)

\* the time until the next request: none, a window, a window and 1 ms
Arrivals == {0, RATE_LIMIT_WINDOW_MS, RATE_LIMIT_WINDOW_MS + 1}

\* the server's clock at the last request of a behaviour
MaxServerNow == 120001

\* POST up to its rate limit check (lines 68-73): a request of client ip
\* arrives and is rejected with status 429, or goes on
POST(ip) ==
  /\ \E d \in Arrivals :
       /\ serverNow + d <= MaxServerNow
       /\ serverNow' = serverNow + d
  /\ rateMap' = checkRateLimit(ip, serverNow', rateMap).rateMap
  /\ reply' = [kind |-> "reply", ip |-> ip,
               status |-> IF checkRateLimit(ip, serverNow', rateMap).ok THEN 0 ELSE 429]
  /\ UNCHANGED <<layVars, sceneVars, callerVars>>

InitRate ==
  /\ LayIdle
  /\ SceneIdle
  /\ CallerIdle
  /\ RateIdle

NextRate == \E ip \in Clients : POST(ip)

SpecRate == InitRate /\ [][NextRate]_vars

SpecHook == InitScene /\ [][NextHook]_vars

\* the component once the canvas has published its handle
InitSession ==
  /\ LayIdle
  /\ CallerIdle
  /\ RateIdle
  /\ scene = <<>>
  /\ excalidrawAPI = "ready"
  /\ topicToGroupId = <<>>
  /\ currentGroupId = <<"group", 0>>
  /\ continuousMode = TRUE
  /\ conversationHistory = <<>>
  /\ now = 0
  /\ pc = "idle"
  /\ inflight = None
  /\ call = None
  /\ loop = None
  /\ rafQueue = <<>>
  /\ invocations = 0
  /\ decision = None
  /\ event = None
  /\ runs = <<>>
  /\ removedKeys = {}
  /\ ended = None
  /\ prior = None

SpecSession == InitSession /\ [][NextSession]_vars

\* two boxes, each padded by collisionPadding on every side, overlap
PaddedOverlap(x1, y1, w1, h1, x2, y2, w2, h2) ==
  ~(  x1 + w1 + collisionPadding < x2 - collisionPadding
   \/ x1 - collisionPadding > x2 + w2 + collisionPadding
   \/ y1 + h1 + collisionPadding < y2 - collisionPadding
   \/ y1 - collisionPadding > y2 + h2 + collisionPadding)

\* C4: for every non-empty existing collection, kind, optional target group
\* and size, the box placed at the returned position, padded by 50, overlaps
\* the 50-padded box of no existing element.
C4_NoPaddedOverlap ==
  layPos # Null =>
    \A i \in 1..Len(layEls) :
      ~PaddedOverlap(layPos.x, layPos.y, laySize[1], laySize[2],
                     layEls[i].x, layEls[i].y, layEls[i].width, layEls[i].height)

\* the part of C4 the code does keep: without a target group that names
\* existing elements, the placement is clear of every existing element
C4_NoOverlapWithoutRelated ==
  (layPos # Null /\ \A i \in 1..Len(layEls) : ~Includes(layEls[i].groupIds, layGroup)) =>
    \A i \in 1..Len(layEls) :
      ~PaddedOverlap(layPos.x, layPos.y, laySize[1], laySize[2],
                     layEls[i].x, layEls[i].y, layEls[i].width, layEls[i].height)

----------------------------------------------------------------------------
(* Properties of the update detection (SpecNotes) *)

\* the topic the last decision resolved, the registered topic it matched
\* and the cues of its utterance
SeenTopic == extractTopicFromResponse(decision.response)
SeenMatch == findMatchingTopic(SeenTopic, MapKeys(decision.registryBefore))
SeenCue(list) == AnyIncluded(toLowerCase(decision.text), list)

\* the group ids a registry holds
RegistryIds(reg) == {reg[i].groupId : i \in 1..Len(reg)}

C7_MatchWithStrongCue ==
  /\ decision.kind = "decision"
  /\ SeenTopic # Null
  /\ SeenMatch # Null
  /\ SeenCue(hasStrongUpdateKeywordsList)
  /\ ~SeenCue(isExplicitNewList)

\* C7: when the resolved topic matches a registered topic and the utterance
\* holds a strong update cue and no explicit-new cue, the block is an UPDATE
\* with the group id registered for the matched topic, and no group id is
\* allocated: the current group id stays and the registry holds no new id,
\* whatever continuous mode and the previous turn are.
C7_StrongCueUpdatesMatchedGroup ==
  C7_MatchWithStrongCue =>
    /\ decision.isUpdate
    /\ decision.groupIdToUse = MapGet(decision.registryBefore, SeenMatch)
    /\ decision.currentGroupId = decision.currentBefore
    /\ RegistryIds(decision.topicToGroupId) \subseteq RegistryIds(decision.registryBefore)

\* such a decision taken with continuous mode off, for a topic that matches
\* by its words only
C7_Witness ==
  /\ C7_MatchWithStrongCue
  /\ ~decision.continuous
  /\ SeenTopic # SeenMatch
  /\ decision.isUpdate

C8_MatchWithExplicitNew ==
  /\ decision.kind = "decision"
  /\ SeenTopic # Null
  /\ SeenMatch # Null
  /\ SeenCue(isExplicitNewList)

\* C8: when the utterance holds an explicit-new cue and the resolved topic
\* matches a registered topic, the block is NEW and gets a group id other
\* than the matched topic's, whatever other cues the utterance holds.
C8_ExplicitNewIsNew ==
  C8_MatchWithExplicitNew =>
    /\ ~decision.isUpdate
    /\ decision.groupIdToUse # MapGet(decision.registryBefore, SeenMatch)

\* the part of C8 the code keeps: an explicit-new cue makes the block NEW
\* when the utterance holds no strong cue, and no weak cue in continuous mode
C8_ExplicitNewWithoutCueIsNew ==
  (/\ C8_MatchWithExplicitNew
   /\ ~SeenCue(hasStrongUpdateKeywordsList)
   /\ ~(SeenCue(hasWeakUpdateKeywordsList) /\ decision.continuous)) =>
    /\ ~decision.isUpdate
    /\ decision.groupIdToUse # MapGet(decision.registryBefore, SeenMatch)

----------------------------------------------------------------------------
(* Properties of the reconcile (SpecScene) *)

\* the note-tagged elements of els whose groupIds contain G
NoteTagged(els, G) ==
  LET OfG(el) == el.noteElement = TRUE /\ Includes(el.groupIds, G)
  IN  SelectSeq(els, OfG)

\* a note's rectangle, its body text (font size 20) and its heading (24)
IsNoteRect(el) == el.type = "rectangle"
IsNoteBody(el) == el.type = "text" /\ el.fontSize = 20
IsNoteHeading(el) == el.type = "text" /\ el.fontSize = 24

RectCount(els) == Len(SelectSeq(els, IsNoteRect))
BodyCount(els) == Len(SelectSeq(els, IsNoteBody))
HeadingCount(els) == Len(SelectSeq(els, IsNoteHeading))

\* the group ids the elements of els carry
GroupIdsIn(els) == UNION {Range(els[i].groupIds) : i \in 1..Len(els)}

OneGeneration(G) ==
  /\ RectCount(NoteTagged(scene, G)) <= 1
  /\ BodyCount(NoteTagged(scene, G)) <= 1
  /\ HeadingCount(NoteTagged(scene, G)) <= 1

\* C1: once the blocks submitted so far are processed, the note-tagged
\* elements of every group id comprise at most one rectangle, one body text
\* and one heading.
C1_OneGenerationPerGroup ==
  pc = "idle" => \A G \in GroupIdsIn(scene) : OneGeneration(G)

\* the part of C1 the code keeps: it holds of every group id the component
\* allocated itself (a top-level id or a parent's id with the item's index)
C1_OneGenerationPerAllocatedGroup ==
  pc = "idle" => \A G \in GroupIdsIn(scene) \ {GroupOwn} : OneGeneration(G)

C2_UpdateCommitted ==
  /\ event.kind = "noteCommit"
  /\ event.shouldUpdate
  /\ event.groupId # Null

\* C2: when the commit of a note UPDATE of group G is applied, the
\* note-tagged elements of G are exactly the elements this reconcile
\* created: a rectangle, a body text and a heading iff the block has a
\* non-blank title, all tagged G; no note element G had at entry remains.
C2_UpdateReplacesNote ==
  C2_UpdateCommitted =>
    /\ scene = event.after
    /\ NoteTagged(scene, event.groupId) = event.created
    /\ RectCount(event.created) = 1
    /\ BodyCount(event.created) = 1
    /\ HeadingCount(event.created) = IF HasTitle(event.response) THEN 1 ELSE 0
    /\ Len(event.created) = IF HasTitle(event.response) THEN 3 ELSE 2
    /\ \A i \in 1..Len(event.created) :
         /\ event.created[i].groupIds = <<event.groupId>>
         /\ event.created[i].createdBy = event.by
    /\ Keys(NoteTagged(event.entry, event.groupId)) \cap Keys(scene) = {}

\* the update of a titled note whose group had a titled note at entry
C2_Witness ==
  /\ C2_UpdateCommitted
  /\ HasTitle(event.response)
  /\ HeadingCount(NoteTagged(event.entry, event.groupId)) = 1
  /\ RectCount(NoteTagged(event.entry, event.groupId)) = 1

\* the last two reconciles are of the same note block (type, title, content
\* and group id) with the same flag
C3_SameNoteTwice ==
  /\ Len(runs) = 2
  /\ runs[1].response.type = "note"
  /\ runs[1].response.groupId # Null
  /\ runs[2].response = runs[1].response
  /\ runs[2].shouldUpdate = runs[1].shouldUpdate

\* C3: reconciling the identical note content a second time against the
\* same group id leaves as many elements in the scene as the first
\* reconcile left, whatever the forced-update flag is.
C3_SecondReconcileKeepsCount ==
  C3_SameNoteTwice => runs[2].count = runs[1].count

\* the part of C3 the code keeps: the count stays when the flag is set
C3_SecondUpdateKeepsCount ==
  (C3_SameNoteTwice /\ runs[2].shouldUpdate) => runs[2].count = runs[1].count

C5_Deleted == event.kind \in {"noteDeletion", "diagramDeletion"}

\* the last entry of an element's groupIds
PrimaryGroup(el) ==
  IF el.groupIds = <<>> THEN Null ELSE el.groupIds[Len(el.groupIds)]

\* el is of the group and of the kind the deletion replaces
Replaced(el) ==
  /\ PrimaryGroup(el) = event.groupId
  /\ (el.noteElement = TRUE) <=> (event.kind = "noteDeletion")

\* C5: the deletion commit of an Update of group G leaves unchanged in the
\* scene every element that is not both of primary group G and of the kind
\* being replaced (note-tagged for a note update, not note-tagged for a
\* diagram update).
C5_DeletionFrame ==
  C5_Deleted =>
    \A i \in 1..Len(event.before) :
      Replaced(event.before[i]) \/ Includes(event.after, event.before[i])

\* the part of C5 the code keeps: the frame of a note update's deletion
C5_NoteDeletionFrame ==
  event.kind = "noteDeletion" =>
    \A i \in 1..Len(event.before) :
      Replaced(event.before[i]) \/ Includes(event.after, event.before[i])

\* the part of C5 the code keeps of a diagram update: the elements that go
\* are of primary group G and not note-tagged, and the others stay, some of
\* them as they were when the reconcile was entered
C5_DiagramDeletionKeys ==
  event.kind = "diagramDeletion" =>
    \A i \in 1..Len(event.before) :
      Replaced(event.before[i]) \/ Key(event.before[i]) \in Keys(event.after)

C6_CommitAfterDeletion ==
  /\ event.kind \in {"noteCommit", "diagramCommit", "errorCard"}
  /\ event.shouldUpdate
  /\ event.removed # {}

\* C6: in every Update the base collection of the commit, which is also
\* the collection the position is computed from, holds no element that the
\* deletion commit removed.
C6_BaseReadAfterDeletion ==
  C6_CommitAfterDeletion => event.removed \cap Keys(event.base) = {}

\* a note update whose deletion removed a note, committed
C6_Witness ==
  /\ C6_CommitAfterDeletion
  /\ event.kind = "noteCommit"
  /\ Len(event.base) < Len(event.entry)

C10_Confirmed == event.kind = "confirm"

\* C10: the collection the deferred commit pushes has the elements of the
\* scene it read, in their order, with the same id, x, y, width, height,
\* text and groupIds; an element differs from the one read at most in
\* version, updated and baseline, and only a text element created by the
\* reconcile that registered the commit differs at all.
C10_ConfirmFrame ==
  C10_Confirmed =>
    /\ Len(event.after) = Len(event.before)
    /\ \A i \in 1..Len(event.before) :
         /\ [event.after[i] EXCEPT !.version = event.before[i].version,
                                   !.updated = event.before[i].updated,
                                   !.baseline = event.before[i].baseline]
              = event.before[i]
         /\ event.after[i] # event.before[i] =>
              /\ event.before[i].type = "text"
              /\ event.before[i].createdBy = event.by

\* the part of C10 the code keeps: the pushed collection has the elements
\* read, and only text elements differ, in version, updated and baseline
C10_ConfirmKeepsContent ==
  C10_Confirmed =>
    /\ Len(event.after) = Len(event.before)
    /\ \A i \in 1..Len(event.before) :
         /\ [event.after[i] EXCEPT !.version = event.before[i].version,
                                   !.updated = event.before[i].updated,
                                   !.baseline = event.before[i].baseline]
              = event.before[i]
         /\ event.after[i] # event.before[i] => event.before[i].type = "text"

----------------------------------------------------------------------------
(* Properties of the caller (SpecCaller) *)

\* C9: processTranscript is never started while an earlier invocation has
\* not finished: at most one invocation is in flight.
C9_SingleFlight == Len(flights) <= 1

\* the part of C9 the code keeps: at most one invocation is in flight as
\* long as Clear conversation has not been clicked
C9_SingleFlightWithoutClear == ~cleared => Len(flights) <= 1

\* ---- the deferred commit and the first commit

\* C11 as stated: the scene the deferred commit of a block reads holds every
\* text element whose id the block registered, as an element of that block
C11_ConfirmReadsAddedTexts ==
  event.kind = "confirm" =>
    \A id \in event.ids :
      \E k \in 1..Len(event.base) :
        /\ event.base[k].id = id
        /\ event.base[k].createdBy = event.by
        /\ event.base[k].type = "text"

\* C11: the deferred commit of a block runs after the block's first commit
\* has been applied: every id it looks for is the id of a text element of
\* the block that the scene it reads holds, or that a deletion commit has
\* removed since
C11_ConfirmAfterFirstCommit ==
  event.kind = "confirm" =>
    \A id \in event.ids :
      \/ \E k \in 1..Len(event.base) :
           /\ event.base[k].id = id
           /\ event.base[k].createdBy = event.by
           /\ event.base[k].type = "text"
      \/ <<id, event.by>> \in removedKeys

\* a deferred commit has found the texts of its block in the scene and
\* has bumped them
C11_Witness ==
  /\ event.kind = "confirm"
  /\ event.ids # {}
  /\ \A id \in event.ids :
       \E k \in 1..Len(event.after) :
         /\ event.after[k].id = id
         /\ event.after[k].createdBy = event.by
         /\ event.after[k].version > event.base[k].version

\* ---- the diagram that does not parse

\* the last commit is the error card of a diagram whose markup failed to
\* parse as it is and once cleaned
C12_BothParsesFailed ==
  /\ event.kind = "errorCard"
  /\ ~parseMermaidToExcalidraw(DiagramContent(event.response.content)).ok
  /\ ~parseMermaidToExcalidraw(
        CleanedContent(DiagramContent(event.response.content))).ok

\* C12: the parser is called at most twice for a diagram; when both calls
\* fail the commit adds the error card to the scene it read and nothing
\* else: a rectangle, a heading when the block has a title, and the message
\* text, each tagged with the block's group id and none a diagram element;
\* and handleAIResponse returns without raising
C12_ErrorCardAfterTwoParses ==
  /\ call.kind = "call" => call.parses <= 2
  /\ event.kind \in {"errorCard", "diagramCommit", "diagramDeletion"} =>
       event.parses <= 2
  /\ C12_BothParsesFailed =>
       LET created == event.created
           n == Len(created)
       IN  /\ event.parses = 2
           /\ event.after = event.before \o created
           /\ event.base = event.before
           /\ n = IF HasTitle(event.response) THEN 3 ELSE 2
           /\ created[1].type = "rectangle"
           /\ created[n].type = "text" /\ created[n].fontSize = 16
           /\ n = 3 => created[2].type = "text" /\ created[2].fontSize = 24
           /\ \A i \in 1..n :
                /\ created[i].groupIds = <<event.groupId>>
                /\ created[i].createdBy = event.by
           /\ ended.kind = "ended" /\ ended.by = event.by => ~ended.raised

\* error cards with and without a heading have been committed on a scene
\* that held elements, and the call has returned
C12_Witness ==
  /\ C12_BothParsesFailed
  /\ HasTitle(event.response)
  /\ Len(event.before) > 0
  /\ Len(event.created) = 3
  /\ ended.kind = "ended" /\ ended.by = event.by /\ ~ended.raised

\* ---- the handle that is absent or incomplete

\* C13: a handleAIResponse that was given no handle, or one that lacks
\* getSceneElements or updateScene, has returned without raising, has
\* committed nothing and has registered no deferred commit: the scene is
\* the one before the call
C13_GuardLeavesScene ==
  (ended.kind = "ended" /\ ended.api # "ready") =>
    /\ ~ended.raised
    /\ pc = "idle"
    /\ invocations = 1
    /\ event = None
    /\ rafQueue = <<>>
    /\ scene = decision.scene

\* a call with a handle that lacks updateScene has returned on a scene
\* that holds a note
C13_Witness ==
  /\ ended.kind = "ended"
  /\ ended.api = "noUpdateScene"
  /\ ~ended.raised
  /\ scene # <<>>
  /\ scene = decision.scene

\* ---- C14

\* what processTranscript would decide for the block it has just classified
\* from the component as it was before the failed block
AsIfNeverSubmitted ==
  Classify(decision.text, decision.response, prior.topicToGroupId,
           prior.currentGroupId, decision.continuous,
           HasPreviousUser(prior.conversationHistory),
           PreviousType(prior.conversationHistory), prior.t)

\* the block classified last is the one submitted after a block that ended
\* with an error
AfterFailedBlock ==
  /\ prior.kind = "prior"
  /\ prior.state = "classified"
  /\ decision.kind = "decision"

\* C14: whatever error the processing of a block ended with, the block
\* submitted after it is classified (forced-update flag and target group
\* id) as it would be had the failed block never been submitted
C14_NextBlockAsIfNeverSubmitted ==
  AfterFailedBlock =>
    /\ decision.isUpdate = AsIfNeverSubmitted.isUpdate
    /\ decision.groupIdToUse = AsIfNeverSubmitted.groupIdToUse

\* C14, the part that holds: after an answer that is not ok (network
\* failure, invalid payload) the processing has ended, and the next block
\* is classified as if the failed block had never been submitted
C14_AfterFailedAnswer ==
  /\ (prior.kind = "prior" /\ prior.state = "failed" /\ prior.cause = "answer")
       => (pc = "idle" /\ call = None /\ inflight = None)
  /\ (AfterFailedBlock /\ prior.cause = "answer") =>
       /\ decision.isUpdate = AsIfNeverSubmitted.isUpdate
       /\ decision.groupIdToUse = AsIfNeverSubmitted.groupIdToUse
       /\ decision.registryBefore = prior.topicToGroupId
       /\ decision.currentBefore = prior.currentGroupId

C14_Witness ==
  /\ AfterFailedBlock
  /\ prior.cause = "answer"
  /\ ~decision.isUpdate

\* ---- C15

\* what a line of a note body may be: plain, padded with spaces, bulleted
\* with and without the space, blank
BodyLineForms == { <<"a">>, <<" ", "b", " ">>, <<Bullet, " ", "c">>, <<Bullet, "d">>, <<>> }

\* how many lines a note body has at most
MaxBodyLines == 2

BodyLines ==
  UNION { [1..n -> BodyLineForms] : n \in 1..MaxBodyLines }

\* the note bodies that are not empty: strings and lists of lines with at
\* least one line that is not blank
NoteBodies ==
  LET filled == { ls \in BodyLines : \E i \in 1..Len(ls) : trim(ls[i]) # <<>> }
  IN  { StrContent(Join(ls, <<"\n">>)) : ls \in filled }
        \cup { ArrContent(ls) : ls \in filled }

\* handleAIResponse(response, excalidrawAPI) is about to run on the empty
\* canvas for a note block with one of the bodies
InitBodies ==
  /\ LayIdle
  /\ CallerIdle
  /\ RateIdle
  /\ scene = <<>>
  /\ excalidrawAPI = "ready"
  /\ topicToGroupId = <<>>
  /\ currentGroupId = <<"group", 0>>
  /\ continuousMode = TRUE
  /\ conversationHistory = <<>>
  /\ now = 1
  /\ pc = "enter"
  /\ inflight = None
  /\ call \in {Call(Block("note", Null, body, GroupOwn), FALSE, "ready") :
                 body \in NoteBodies}
  /\ loop = None
  /\ rafQueue = <<>>
  /\ invocations = 0
  /\ decision = None
  /\ event = None
  /\ runs = <<>>
  /\ removedKeys = {}
  /\ ended = None
  /\ prior = None

NextBodies ==
  \/ EnterNoteNew
  \/ Confirm

SpecBodies == InitBodies /\ [][NextBodies]_vars

\* the lines of the body text the last note commit created
RenderedLines ==
  SplitOn(event.created[Len(event.created)].text, "\n")

\* the body of the block the last commit rendered has no blank line and
\* every bullet of it is followed by a space
TidyBody ==
  LET content == event.response.content
      ls == IF content.kind = "array" THEN content.lines
            ELSE SplitOn(content.str, "\n")
  IN  \A i \in 1..Len(ls) :
        /\ trim(ls[i]) # <<>>
        /\ startsWith(trim(ls[i]), <<Bullet>>) => startsWith(trim(ls[i]), <<Bullet, " ">>)

BulletedOnce(line) ==
  /\ startsWith(line, <<Bullet, " ">>)
  /\ ~startsWith(line, <<Bullet, " ", Bullet>>)

\* C15: the rendered text of a note with a non-empty body has no blank line
\* and every line of it begins with the bullet and a space exactly once
C15_EveryLineBulletedOnce ==
  event.kind = "noteCommit" =>
    \A i \in 1..Len(RenderedLines) :
      /\ trim(RenderedLines[i]) # <<>>
      /\ BulletedOnce(RenderedLines[i])

\* C15, the part that holds: every rendered line begins with the bullet;
\* a string body leaves no blank line; a body without blank lines whose
\* bullets are followed by a space is rendered with '@ ' exactly once on
\* every line
C15_BulletsOfTidyBodies ==
  event.kind = "noteCommit" =>
    /\ \A i \in 1..Len(RenderedLines) : startsWith(RenderedLines[i], <<Bullet>>)
    /\ event.response.content.kind = "string" =>
         \A i \in 1..Len(RenderedLines) : trim(RenderedLines[i]) # <<>>
    /\ TidyBody => \A i \in 1..Len(RenderedLines) : BulletedOnce(RenderedLines[i])

C15_Witness ==
  /\ event.kind = "noteCommit"
  /\ event.response.content.kind = "array"
  /\ TidyBody
  /\ Len(RenderedLines) = 2

\* ---- C16

\* this step is the commit of a titled note block, not nested in a multi
\* block, that processTranscript has classified and that found the canvas
\* empty at its entry and at its commit
TitledNoteOnEmptyCanvas ==
  /\ event' # event
  /\ event'.kind = "noteCommit"
  /\ HasTitle(event'.response)
  /\ event'.entry = <<>>
  /\ event'.base = <<>>
  /\ loop = None
  /\ decision.kind = "decision"

\* the ids of the groups the registry and the component knew before the
\* last classification
KnownGroupIds ==
  {decision.registryBefore[i].groupId : i \in 1..Len(decision.registryBefore)}
    \cup {decision.currentBefore}

\* C16: a titled note block reconciled on an empty canvas adds exactly the
\* rectangle, the heading and the body text, all tagged with the group id
\* the classifier has just minted, the rectangle 100 to the left of the
\* position centered on (600, 400)
C16_TitledNoteOnEmptyCanvas ==
  [][TitledNoteOnEmptyCanvas =>
       LET created == event'.created
       IN  /\ Len(created) = 3
           /\ scene' = created
           /\ created[1].type = "rectangle"
           /\ created[2].type = "text" /\ created[2].text = trim(event'.response.title)
           /\ created[3].type = "text" /\ created[3].fontSize = 20
           /\ \A k \in 1..3 : created[k].groupIds = <<decision.groupIdToUse>>
           /\ ~decision.isUpdate
           /\ decision.groupIdToUse \notin KnownGroupIds
           /\ 2 * created[1].x = 2 * 600 - created[1].width - 2 * 100
           /\ 2 * created[1].y = 2 * 400 - created[1].height]_vars

C16_Witness ==
  /\ event.kind = "noteCommit"
  /\ HasTitle(event.response)
  /\ event.entry = <<>>
  /\ event.base = <<>>
  /\ Len(event.created) = 3
  /\ decision.kind = "decision"
  /\ event.groupId = decision.groupIdToUse
  /\ event.created[1].x = 280
  /\ scene = event.created

\* ---- C17

\* note texts: two that share three of four pairs of characters, two that
\* share 19 of 19 and 20 pairs, and the empty text
TextAbcde == <<"a","b","c","d","e">>
TextAbcdf == <<"a","b","c","d","f">>
TextA20 == <<"a","a","a","a","a","a","a","a","a","a","a","a","a","a","a","a","a","a","a","a">>
TextA21 == <<"a","a","a","a","a","a","a","a","a","a","a","a","a","a","a","a","a","a","a","a","a">>

ExistingTexts == {TextAbcde, TextA20, <<>>}
NewTexts == {TextAbcde, TextAbcdf, TextA21, <<>>}

\* the group ids of the existing notes: two the component has allocated and
\* one the model has chosen for a nested block
ExistingGroupIds == {<<"group", 1>>, <<"group", 2>>, GroupOwn}

\* the elements of the note of group id g with body text at column n
ExistingNote(g, text, n) ==
  NoteElements(Block("note", Null, StrContent(text), g), EnsureBullets(text),
               [x |-> 1000 * n, y |-> 0], 0, <<n, n, n>>, 0)

\* the scenes findSimilarNote is applied to: no, one or two notes
SimilarScenes ==
  {<<>>}
    \cup {ExistingNote(g, text, 0) : g \in ExistingGroupIds, text \in ExistingTexts}
    \cup {ExistingNote(<<"group", 1>>, t1, 0) \o ExistingNote(g, t2, 1) :
            t1 \in ExistingTexts, t2 \in ExistingTexts,
            g \in ExistingGroupIds \ {<<"group", 1>>}}

\* handleAIResponse(response, excalidrawAPI) is about to run for a note
\* block that names no group, so that findSimilarNote is applied to the
\* block's text and the scene
InitSimilar ==
  /\ LayIdle
  /\ CallerIdle
  /\ RateIdle
  /\ scene \in SimilarScenes
  /\ excalidrawAPI = "ready"
  /\ topicToGroupId = <<>>
  /\ currentGroupId = <<"group", 0>>
  /\ continuousMode = TRUE
  /\ conversationHistory = <<>>
  /\ now = 1
  /\ pc = "enter"
  /\ inflight = None
  /\ call \in {Call(Block("note", Null, content, Null), FALSE, "ready") :
                 content \in {StrContent(text) : text \in NewTexts}
                               \cup {ArrContent(<<text>>) : text \in NewTexts}}
  /\ loop = None
  /\ rafQueue = <<>>
  /\ invocations = 0
  /\ decision = None
  /\ event = None
  /\ runs = <<>>
  /\ removedKeys = {}
  /\ ended = None
  /\ prior = None

NextSimilar ==
  \/ EnterNoteNew
  \/ EnterNoteUpdate
  \/ NoteCommit
  \/ Confirm

SpecSimilar == InitSimilar /\ [][NextSimilar]_vars

\* the last group ids of the note elements of a scene
NoteGroupIds(els) ==
  {els[i].groupIds[Len(els[i].groupIds)] :
     i \in {j \in 1..Len(els) : els[j].noteElement = TRUE /\ els[j].groupIds # <<>>}}

\* the texts of the note of group id g, in scene order, separated by spaces
AggregateText(els, g) ==
  LET Of(el) == /\ el.noteElement = TRUE /\ el.groupIds # <<>>
                /\ el.groupIds[Len(el.groupIds)] = g
                /\ el.type = "text"
      texts == SelectSeq(els, Of)
  IN  Join([i \in 1..Len(texts) |-> texts[i].text], <<" ">>)

\* the similarity of the new text and the note of group id g is 0.95 or
\* more
VerySimilar(newText, els, g) ==
  LET similarity == compareTwoStrings(extractNoteContent(newText),
                                      extractNoteContent(AggregateText(els, g)))
  IN  100 * similarity[1] >= 95 * similarity[2]

\* the last commit belongs to a call that has applied findSimilarNote
Searched ==
  /\ event.kind \in {"noteCommit", "noteDeletion"}
  /\ event.similar.kind # "unsearched"

ExactMatchReturned ==
  /\ event.similar.kind = "match"
  /\ event.similar.isExactMatch

DiagramMarkups ==
  {<<"A">>, <<"S">>, <<"C">>, <<"T">>, <<"V">>, <<"E">>, <<"B">>, <<Bullet, "A">>}

GroupOne == <<"group", 1>>

\* the scenes of the direct diagram calls: none, and the diagram of an
\* earlier call for the same group
DiagramScenes ==
  { <<>>,
    DiagramElements(Block("diagram", Null, StrContent(<<"A">>), GroupOne),
                    parseMermaidToExcalidraw(<<"A">>).elements, <<>>, 0,
                    <<0, 0>>, 0) }

\* handleAIResponse(response, excalidrawAPI, [], undefined, shouldUpdate) is
\* about to run for a diagram block that names its group
InitDiagrams ==
  /\ LayIdle
  /\ CallerIdle
  /\ RateIdle
  /\ scene \in DiagramScenes
  /\ excalidrawAPI = "ready"
  /\ topicToGroupId = <<>>
  /\ currentGroupId = <<"group", 0>>
  /\ continuousMode = TRUE
  /\ conversationHistory = <<>>
  /\ now = 1
  /\ pc = "enter"
  /\ inflight = None
  /\ call \in {Call(Block("diagram", title, StrContent(markup), GroupOne), u, "ready") :
                 title \in {Null, <<"F","l","o","w">>}, markup \in DiagramMarkups,
                 u \in BOOLEAN}
  /\ loop = None
  /\ rafQueue = <<>>
  /\ invocations = 0
  /\ decision = None
  /\ event = None
  /\ runs = <<>>
  /\ removedKeys = {}
  /\ ended = None
  /\ prior = None

NextDiagrams ==
  \/ EnterDiagram
  \/ ParseSucceeds
  \/ ParseFails
  \/ RetryDone
  \/ DiagramCommit
  \/ Confirm

SpecDiagrams == InitDiagrams /\ [][NextDiagrams]_vars

\* the ids of the elements the last commit created
CreatedIds == {event.created[i].id : i \in 1..Len(event.created)}

\* C18: every containerId of an element committed for a diagram is the id
\* of an element committed for the same diagram, whatever the order in
\* which the parser returns texts and containers
C18_ContainerIdsCommitted ==
  event.kind = "diagramCommit" =>
    \A i \in 1..Len(event.created) :
      event.created[i].containerId # Null =>
        event.created[i].containerId \in CreatedIds

\* C18, the part that holds: the containerId of a synthesized label text,
\* and of a text the parser returns after its container, is the id of a
\* committed element
C18_ContainerBeforeText ==
  (event.kind = "diagramCommit" /\ event.response.content.str # <<"T">>) =>
    \A i \in 1..Len(event.created) :
      event.created[i].containerId # Null =>
        event.created[i].containerId \in CreatedIds

C18_Witness ==
  /\ event.kind = "diagramCommit"
  /\ event.response.content.str = <<"C">>
  /\ \E i \in 1..Len(event.created) :
       /\ event.created[i].containerId # Null
       /\ event.created[i].containerId \in CreatedIds

\* C19: every element committed for a diagram whose target group id is G
\* has G as the last entry of its groupIds
C19_GroupIdLast ==
  (event.kind = "diagramCommit" /\ event.groupId # Null) =>
    \A i \in 1..Len(event.created) :
      /\ event.created[i].groupIds # <<>>
      /\ event.created[i].groupIds[Len(event.created[i].groupIds)] = event.groupId

\* a commit of a titled diagram whose node the parser has put in a group
\* of its own and for whose label a text has been synthesized
C19_Witness ==
  /\ event.kind = "diagramCommit"
  /\ event.groupId = GroupOne
  /\ Len(event.created) = 3
  /\ event.created[1].groupIds = <<<<"sub">>, GroupOne>>
  /\ event.created[2].containerId = event.created[1].id
  /\ event.created[3].fontSize = 24

\* ---- C20

MalformedRequests ==
  { Request(<<"l","i","s","t"," ","i","t">>, TRUE, ListString),
    Request(<<"l","i","s","t"," ","a","l","l">>, TRUE, ListObject),
    Request(<<"b","o","t","h">>, TRUE, MultiString),
    Request(<<"b","o","t","h"," ","o","f">>, TRUE, MultiObject),
    Request(<<"n","e","s","t">>, TRUE, MultiNestsList) }

\* the whole machine on the answers the route has to repair
NextMalformed ==
  \/ HandleExcalidrawAPI
  \/ \E req \in MalformedRequests : Submit(req)
  \/ Receive
  \/ EnterMulti
  \/ EnterUnknown
  \/ EnterNoteNew
  \/ EnterNoteUpdate
  \/ NoteCommit
  \/ Confirm

SpecMalformed == InitScene /\ [][NextMalformed]_vars

\* the model's answer has a kind that is none of the three, or is a multi
\* block whose content is not an array
Malformed(answer) ==
  \/ answer.type \notin {"note", "diagram", "multi"}
  \/ answer.type = "multi" /\ answer.content.kind \notin {"array", "items"}

\* this step ends the processing of a malformed answer that has reached
\* handleAIResponse
MalformedDone ==
  /\ pc \notin {"idle", "fetch"}
  /\ pc' = "idle"
  /\ inflight.kind = "request"
  /\ Malformed(inflight.answer)

\* this step runs handleAIResponse to its end for a block of unknown kind
UnknownKindDone ==
  /\ pc = "enter"
  /\ call.response.type \notin {"note", "diagram", "multi"}
  /\ invocations' = invocations + 1

\* this step commits a note
NoteAdded ==
  /\ event' # event
  /\ event'.kind = "noteCommit"
  /\ Len(scene') = Len(scene) + Len(event'.created)
  /\ event'.created # <<>>

\* C20: a block with an unknown kind, or a multi block whose content is
\* not an array, ends as a note added to the scene, never as no element at
\* all
C20_MalformedBecomesNote ==
  [][(MalformedDone \/ UnknownKindDone) => NoteAdded]_vars

\* C20, the part that holds: an answer of unknown kind whose content is a
\* string, and a multi answer whose content is not an array, end as a note
\* whose body text is the bulleted String(content)
C20_TopLevelStringBecomesNote ==
  [][(/\ MalformedDone
      /\ (inflight.answer.type = "multi" \/ inflight.answer.content.kind = "string"))
       => /\ NoteAdded
          /\ event'.created[Len(event'.created)].text =
               EnsureBullets(StringOf(inflight.answer.content))]_vars

C20_Witness ==
  /\ event.kind = "noteCommit"
  /\ event.response.content = StrContent(ObjectString)
  /\ event.created[Len(event.created)].text = <<Bullet, " ">> \o ObjectString

\* ---- C21

\* the bodies that are empty: the empty string, white space only, the
\* empty list
EmptyBodies ==
  {StrContent(<<>>), StrContent(<<" ">>), StrContent(<<" ", "\n", " ">>), ArrContent(<<>>)}

\* the blocks with an empty body: notes with and without a title, and the
\* multi block that nests nothing
EmptyBlocks ==
  {Block("note", title, body, GroupOwn) :
     title \in {Null, <<"O","w","n">>}, body \in EmptyBodies}
    \cup {Block("multi", Null, ItemsContent(<<>>), GroupOwn)}

\* handleAIResponse(response, excalidrawAPI, [], undefined, shouldUpdate) is
\* about to run for a block with an empty body; decision keeps the scene of
\* that moment
InitEmpty ==
  /\ LayIdle
  /\ CallerIdle
  /\ RateIdle
  /\ scene \in DirectScenes
  /\ excalidrawAPI = "ready"
  /\ topicToGroupId = <<>>
  /\ currentGroupId = <<"group", 0>>
  /\ continuousMode = TRUE
  /\ conversationHistory = <<>>
  /\ now = 1
  /\ pc = "enter"
  /\ inflight = None
  /\ call \in {Call(r, u, "ready") : r \in EmptyBlocks, u \in BOOLEAN}
  /\ loop = None
  /\ rafQueue = <<>>
  /\ invocations = 0
  /\ decision = [kind |-> "direct", scene |-> scene]
  /\ event = None
  /\ runs = <<>>
  /\ removedKeys = {}
  /\ ended = None
  /\ prior = None

NextEmpty ==
  \/ EnterMulti
  \/ EnterNoteNew
  \/ EnterNoteUpdate
  \/ NoteCommit
  \/ Confirm

SpecEmpty == InitEmpty /\ [][NextEmpty]_vars

\* C21: reconciling a block whose body is empty commits nothing, so that
\* the scene stays the one the call found, and raises nothing
C21_EmptyBodyLeavesScene ==
  /\ scene = decision.scene
  /\ event.kind = "none"
  /\ ended.kind = "ended" => ~ended.raised

\* C21, the part that holds: nothing is raised, and the multi block that
\* nests nothing commits nothing
C21_EmptyMultiLeavesScene ==
  /\ ended.kind = "ended" => ~ended.raised
  /\ event.kind \notin {"none", "confirm"} => event.response.type = "note"

\* ---- C22, C23

\* items of a multi block the loop skips: one that is no object (or has
\* neither key), and an object with a type and without a content
NoObject == Block(Undefined, Null, [kind |-> Undefined], Null)
NoContent == Block("note", Null, [kind |-> Undefined], Null)

NoteA == Block("note", Null, StrContent(<<"a">>), Null)
NoteB == Block("note", Null, StrContent(<<"b">>), GroupOwn)
NoteC == Block("note", Null, StrContent(<<"c">>), Null)
NoteObject == Block("note", Null, ObjContent, Null)
DiagramOne == Block("diagram", Null, StrContent(<<"A">>), GroupOne)

\* the multi blocks of the direct calls, with and without a group id:
\* blocks between items that are skipped, a diagram that parses, a diagram
\* that does not, and a note whose content is an object
NestedMultis ==
  {Block("multi", Null, ItemsContent(items), groupId) :
     items \in {<<NoObject, NoteA, NoContent, NoteB, NoteC>>,
                <<DiagramOne, NoteA>>,
                <<DiagramBroken, NoteA>>,
                <<NoteObject, NoteA>>},
     groupId \in {Null, GroupOne}}

\* handleAIResponse(response, excalidrawAPI, [], undefined, shouldUpdate) is
\* about to run for a multi block; decision keeps the block and the scene
\* of that moment
InitNested ==
  /\ LayIdle
  /\ CallerIdle
  /\ RateIdle
  /\ scene \in DirectScenes \cup DiagramScenes
  /\ excalidrawAPI = "ready"
  /\ topicToGroupId = <<>>
  /\ currentGroupId = <<"group", 0>>
  /\ continuousMode = TRUE
  /\ conversationHistory = <<>>
  /\ now = 1
  /\ pc = "enter"
  /\ inflight = None
  /\ call \in {Call(r, u, "ready") : r \in NestedMultis, u \in BOOLEAN}
  /\ loop = None
  /\ rafQueue = <<>>
  /\ invocations = 0
  /\ decision = [kind |-> "direct", scene |-> scene, response |-> call.response]
  /\ event = None
  /\ runs = <<>>
  /\ removedKeys = {}
  /\ ended = None
  /\ prior = None

NextNested ==
  \/ EnterMulti
  \/ EnterNoteNew
  \/ EnterNoteUpdate
  \/ NoteCommit
  \/ EnterDiagram
  \/ ParseSucceeds
  \/ ParseFails
  \/ RetryDone
  \/ DiagramCommit
  \/ Confirm

SpecNested == InitNested /\ [][NextNested]_vars


\* the group id of the item at position k of the array of the loop, the
\* first position being 1
ChildGroupId(k) ==
  IF loop.items[k].groupId # Null THEN loop.items[k].groupId
  ELSE Append(loop.parentGroupId, k - 1)

\* the positions in the array at which the block being reconciled stands
Positions ==
  {k \in 1..Len(loop.items) :
     /\ loop.items[k].type = call.response.type
     /\ loop.items[k].content = call.response.content}

\* C22: the parent group id of a multi block is the given one, else a
\* freshly minted one; the nested block at index i of the original array
\* is reconciled with the parent's id followed by i when it has no group
\* id, and with its own when it has one
C22_ChildGroupIdByArrayIndex ==
  loop.kind = "loop" =>
    /\ IF loop.response.groupId # Null
       THEN loop.parentGroupId = loop.response.groupId
       ELSE /\ Len(loop.parentGroupId) = 3
            /\ Head(loop.parentGroupId) = "group"
    /\ Positions # {}
    /\ \A k \in Positions : call.response.groupId = ChildGroupId(k)

\* a block that follows two skipped items is reconciled with its index in
\* the array, under a parent id that was minted
C22_Witness ==
  /\ loop.kind = "loop"
  /\ loop.response.groupId = Null
  /\ call.response.content = NoteC.content
  /\ call.response.groupId = Append(loop.parentGroupId, 4)

\* some element of the scene is tagged with group id g
InGroup(g) == \E i \in 1..Len(scene) : Includes(scene[i].groupIds, g)

\* the blocks among the items of the multi block the call was given
BlockCount ==
  LET items == decision.response.content.items
  IN  Cardinality({k \in 1..Len(items) : IsBlock(items[k])})

\* when a nested block is entered, before it reads the scene, every block
\* before it in the array has committed its elements or its error card
EarlierBlocksCommitted ==
  (loop.kind = "loop" /\ pc = "enter") =>
    \A k \in 1..(loop.index - 1) :
      IsBlock(loop.items[k]) => InGroup(ChildGroupId(k))

\* C23: the nested blocks are reconciled one after the other in the order
\* of the array, each having committed before the next one reads the
\* scene, and every one of them has been entered when the multi block is
\* done, whether or not one of them failed
C23_EveryNestedBlockInOrder ==
  /\ EarlierBlocksCommitted
  /\ (ended.kind = "ended" /\ pc = "idle") => invocations = 1 + BlockCount

\* C23, the part that holds: the order, and every nested block has been
\* entered when no nested block raised (a diagram that does not parse
\* commits its error card and the loop goes on)
C23_InOrderUnlessRaised ==
  /\ EarlierBlocksCommitted
  /\ (ended.kind = "ended" /\ pc = "idle" /\ ~ended.raised) =>
       invocations = 1 + BlockCount

\* ---- the update detection on enumerated closures (C24, C26 to C29)

GroupTwo == <<"group", 2>>

\* registries processTranscript may close over, each with the group id
\* that is current with it: the empty one, one topic, a topic with its
\* variant without common words, a topic of short words, and two topics
\* that share a word
ClosureRegistries ==
  { [topicToGroupId |-> <<>>, currentGroupId |-> <<"group", 0>>],
    [topicToGroupId |-> <<[topic |-> <<"l","o","g","i","n"," ","f","l","o","w">>, groupId |-> GroupOne]>>,
     currentGroupId |-> GroupOne],
    [topicToGroupId |-> <<[topic |-> <<"t","h","e"," ","p","l","a","n">>, groupId |-> GroupOne],
                          [topic |-> <<"p","l","a","n">>, groupId |-> GroupOne]>>,
     currentGroupId |-> GroupOne],
    [topicToGroupId |-> <<[topic |-> <<"a","p","i">>, groupId |-> GroupOne]>>,
     currentGroupId |-> GroupOne],
    [topicToGroupId |-> <<[topic |-> <<"l","o","g","i","n"," ","f","l","o","w">>, groupId |-> GroupOne],
                          [topic |-> <<"l","o","g","i","n"," ","p","a","g","e">>, groupId |-> GroupTwo]>>,
     currentGroupId |-> GroupTwo] }

\* the histories that go with them: none, and an utterance answered with
\* a note or with a diagram
ClosureHistories ==
  { <<>>,
    <<UserMessage, AssistantMessage([type |-> "note"])>>,
    <<UserMessage, AssistantMessage([type |-> "diagram"])>> }

\* utterances with no cue, a strong cue, a weak cue, an explicit-new cue,
\* a strong and an explicit-new cue, requests for a new and for a
\* different note, and a strong cue with no topic word
ClosureTexts ==
  { <<"l","o","g","i","n"," ","f","l","o","w">>,
    <<"u","p","d","a","t","e"," ","l","o","g","i","n"," ","f","l","o","w">>,
    <<"a","l","s","o"," ","a","d","d"," ","t","h","e"," ","l","o","g","i","n">>,
    <<"a","n","o","t","h","e","r"," ","l","o","g","i","n"," ","f","l","o","w">>,
    <<"A","c","t","u","a","l","l","y"," ","a"," ","n","e","w"," ","l","o","g","i","n"," ","f","l","o","w">>,
    <<"n","e","w"," ","n","o","t","e">>,
    <<"a"," ","d","i","f","f","e","r","e","n","t"," ","n","o","t","e">>,
    <<"c","h","a","n","g","e"," ","i","t">> }

NoteApi == Block("note", <<"A","P","I">>, StrContent(<<"a">>), Null)
NoteThePlan == Block("note", <<"T","h","e"," ","P","l","a","n">>, StrContent(<<"a">>), Null)
NoteNoTopic == Block("note", Null, StrContent(<<"?","\n","a">>), Null)
DiagramNoTopic == Block("diagram", Null, StrContent(<<"\n","A">>), Null)
DiagramLoginFlow == Block("diagram", <<"L","o","g","i","n"," ","F","l","o","w">>, StrContent(<<"A">>), Null)
NoteLoginForm == Block("note", <<"L","o","g","i","n"," ","F","o","r","m">>, StrContent(<<"a">>), Null)

\* the answers: titled notes whose topic is registered, matches a
\* registered one by its words or matches none, a titled diagram, and
\* blocks that yield no topic
ClosureAnswers ==
  { NoteLoginFlowB, NoteLoginPage, NoteLoginForm, NoteApi, NoteThePlan,
    DiagramLoginFlow, NoteNoTopic, DiagramNoTopic }

\* processTranscript awaits the server's answer
InitClassify ==
  /\ LayIdle
  /\ CallerIdle
  /\ RateIdle
  /\ scene = <<>>
  /\ excalidrawAPI = "ready"
  /\ \E r \in ClosureRegistries :
       /\ topicToGroupId = r.topicToGroupId
       /\ currentGroupId = r.currentGroupId
  /\ continuousMode \in BOOLEAN
  /\ now = 2
  /\ pc = "fetch"
  /\ \E h \in ClosureHistories :
       /\ (topicToGroupId # <<>> => h # <<>>)
       /\ conversationHistory = Append(h, UserMessage)
       /\ inflight \in { [kind |-> "request", text |-> text, ok |-> TRUE,
                          answer |-> a, payload |-> FinalStructureValidation(a),
                          conversationHistory |-> h,
                          continuousMode |-> continuousMode] :
                         text \in ClosureTexts, a \in ClosureAnswers }
  /\ call = None
  /\ loop = None
  /\ rafQueue = <<>>
  /\ invocations = 0
  /\ decision = None
  /\ event = None
  /\ runs = <<>>
  /\ removedKeys = {}
  /\ ended = None
  /\ prior = None

NextClassify == Receive

SpecClassify == InitClassify /\ [][NextClassify]_vars

\* ---- C24

\* the topics the last decision registered or added as an alias: the keys
\* it set
RegisteredTopics ==
  LET before == decision.registryBefore
      after == decision.topicToGroupId
  IN  {T \in Range(MapKeys(after)) :
         ~MapHas(before, T) \/ MapGet(before, T) # MapGet(after, T)}

\* findMatchingTopic finds topic T in the registry and the topic it finds
\* maps to the group id of T
ResolvesToItsGroup(T, registry) ==
  /\ findMatchingTopic(T, MapKeys(registry)) # Null
  /\ MapHas(registry, findMatchingTopic(T, MapKeys(registry)))
  /\ MapGet(registry, findMatchingTopic(T, MapKeys(registry))) = MapGet(registry, T)

\* C24: right after a topic has been registered or added as an alias for
\* a group id, findMatchingTopic resolves the topic to that group id
C24_RegisteredTopicResolves ==
  decision.kind = "decision" =>
    \A T \in RegisteredTopics : ResolvesToItsGroup(T, decision.topicToGroupId)

\* C24, the part that holds: a registered topic that has a word of more
\* than three characters resolves to its group id, whatever other topics
\* match it by their words
C24_LongWordTopicResolves ==
  decision.kind = "decision" =>
    \A T \in RegisteredTopics :
      (\E w \in Range(SplitWs(T)) : Len(w) > 3) =>
        ResolvesToItsGroup(T, decision.topicToGroupId)

\* ---- C26

\* the last decision was taken for a topic that matches a registered one,
\* on an utterance without an explicit-new cue
C26_MatchWithoutExplicitNew ==
  /\ decision.kind = "decision"
  /\ SeenTopic # Null
  /\ SeenMatch # Null
  /\ ~SeenCue(isExplicitNewList)

\* C26: when the resolved topic matches a registered topic and the
\* utterance has no explicit-new cue, the block is an UPDATE exactly when
\* the utterance has a strong cue, or a weak cue in continuous mode, or
\* continuous mode is on and the previous answer had the same kind;
\* otherwise it is NEW
C26_UpdateExactlyOnCues ==
  C26_MatchWithoutExplicitNew =>
    (decision.isUpdate <=>
       \/ SeenCue(hasStrongUpdateKeywordsList)
       \/ (SeenCue(hasWeakUpdateKeywordsList) /\ decision.continuous)
       \/ (decision.continuous /\ decision.previousType = decision.response.type))

\* a block with a weak cue, continuous mode off, classified NEW although
\* its topic is registered
C26_Witness ==
  /\ C26_MatchWithoutExplicitNew
  /\ SeenCue(hasWeakUpdateKeywordsList)
  /\ ~decision.continuous
  /\ ~decision.isUpdate
  /\ decision.branch = "newInstance"

\* ---- C27

\* the last decision is an UPDATE of the group of a registered topic
C27_TopicUpdate ==
  /\ decision.kind = "decision"
  /\ decision.isUpdate
  /\ SeenTopic # Null

\* C27: an UPDATE whose topic differs from the registered topic it matched
\* leaves the registry with the topic mapped to the matched group's id and
\* with every other entry as it was; an UPDATE whose topic is the matched
\* one leaves the registry as it was; neither changes the current group id
C27_UpdateAddsAlias ==
  C27_TopicUpdate =>
    LET before == decision.registryBefore
        after == decision.topicToGroupId
    IN  /\ decision.currentGroupId = decision.currentBefore
        /\ IF SeenTopic # SeenMatch
           THEN /\ MapHas(after, SeenTopic)
                /\ MapGet(after, SeenTopic) = MapGet(before, SeenMatch)
                /\ Range(MapKeys(after)) = Range(MapKeys(before)) \cup {SeenTopic}
                /\ \A T \in Range(MapKeys(before)) :
                     T # SeenTopic => MapGet(after, T) = MapGet(before, T)
           ELSE after = before

\* an alias added to a registry of two topics that map to two groups
C27_Witness ==
  /\ C27_TopicUpdate
  /\ SeenTopic # SeenMatch
  /\ Len(decision.registryBefore) = 2
  /\ Len(decision.topicToGroupId) = 3
  /\ decision.registryBefore[1].groupId # decision.registryBefore[2].groupId

\* ---- C28

\* the last decision is NEW and was taken for a block that has a topic
C28_NewWithTopic ==
  /\ decision.kind = "decision"
  /\ ~decision.isUpdate
  /\ SeenTopic # Null

\* the group id of the last decision is in no entry of the registry it was
\* taken from and tags no element of the scene
FreshGroupId ==
  /\ decision.groupIdToUse \notin RegistryIds(decision.registryBefore)
  /\ \A i \in 1..Len(scene) : ~Includes(scene[i].groupIds, decision.groupIdToUse)

\* the topic T is mapped to the group id of the last decision
MapsToNewGroup(T) ==
  /\ MapHas(decision.topicToGroupId, T)
  /\ MapGet(decision.topicToGroupId, T) = decision.groupIdToUse

\* C28: a NEW block that has a topic gets a group id that no registry
\* entry and no element of the scene holds, and the registry then maps
\* the topic, and the topic without its common words when that is not
\* empty and not the topic itself, to this group id
C28_NewTopicAndVariantRegistered ==
  C28_NewWithTopic =>
    /\ FreshGroupId
    /\ MapsToNewGroup(SeenTopic)
    /\ (StopWordStripped(SeenTopic) # <<>> /\ StopWordStripped(SeenTopic) # SeenTopic) =>
         MapsToNewGroup(StopWordStripped(SeenTopic))

\* C28, the part that holds: the group id is new and the topic maps to it,
\* and so does the topic without its common words when the topic matched
\* no registered one
C28_VariantOfUnmatchedTopic ==
  C28_NewWithTopic =>
    /\ FreshGroupId
    /\ MapsToNewGroup(SeenTopic)
    /\ (/\ SeenMatch = Null
        /\ StopWordStripped(SeenTopic) # <<>>
        /\ StopWordStripped(SeenTopic) # SeenTopic) =>
         MapsToNewGroup(StopWordStripped(SeenTopic))

\* ---- C29

\* the requests for a new, another, a different or a separate note or
\* checklist
AsksForNewNote ==
  { <<"n","e","w"," ","n","o","t","e">>,
    <<"n","e","w"," ","c","h","e","c","k","l","i","s","t">>,
    <<"a","n","o","t","h","e","r"," ","n","o","t","e">>,
    <<"a","n","o","t","h","e","r"," ","c","h","e","c","k","l","i","s","t">>,
    <<"d","i","f","f","e","r","e","n","t"," ","n","o","t","e">>,
    <<"d","i","f","f","e","r","e","n","t"," ","c","h","e","c","k","l","i","s","t">>,
    <<"s","e","p","a","r","a","t","e"," ","n","o","t","e">>,
    <<"s","e","p","a","r","a","t","e"," ","c","h","e","c","k","l","i","s","t">> }

\* the last decision was taken for a block that has no topic
C29_NoTopic ==
  /\ decision.kind = "decision"
  /\ SeenTopic = Null

\* the last decision is UPDATE with the current group id, which stays, or
\* NEW with a group id that was not the current one and that becomes it
FallbackOutcome(update) ==
  IF update
  THEN /\ decision.isUpdate
       /\ decision.groupIdToUse = decision.currentBefore
       /\ decision.currentGroupId = decision.currentBefore
  ELSE /\ ~decision.isUpdate
       /\ decision.groupIdToUse # decision.currentBefore
       /\ decision.groupIdToUse \notin RegistryIds(decision.registryBefore)
       /\ decision.currentGroupId = decision.groupIdToUse

\* C29: a block without a topic is an UPDATE of the current group when
\* continuous mode is on, the previous answer had the same kind and, for a
\* note, the utterance does not ask for a new, another, a different or a
\* separate note or checklist, for another kind, the utterance has a
\* strong or a weak cue; in every other case it is NEW with a newly
\* allocated group id, which becomes the current one
C29_FallbackWithoutTopic ==
  C29_NoTopic =>
    FallbackOutcome(
      /\ decision.continuous
      /\ decision.previousType = decision.response.type
      /\ IF decision.response.type = "note"
         THEN ~SeenCue(AsksForNewNote)
         ELSE SeenCue(hasStrongUpdateKeywordsList) \/ SeenCue(hasWeakUpdateKeywordsList))

\* C29, the part that holds: the same for every utterance that does not
\* ask for a different note
C29_FallbackUnlessDifferentNote ==
  (C29_NoTopic /\ ~SeenCue({<<"d","i","f","f","e","r","e","n","t"," ","n","o","t","e">>})) =>
    FallbackOutcome(
      /\ decision.continuous
      /\ decision.previousType = decision.response.type
      /\ IF decision.response.type = "note"
         THEN ~SeenCue(AsksForNewNote)
         ELSE SeenCue(hasStrongUpdateKeywordsList) \/ SeenCue(hasWeakUpdateKeywordsList))

\* ---- C25

\* the step is the clear-history action: the only one that empties a
\* conversation history that held messages
ClearStep == conversationHistory # <<>> /\ conversationHistory' = <<>>

\* what the clear-history action leaves: no registry entry, and a current
\* group id allocated from the clock
ClearedRegistry ==
  /\ topicToGroupId' = <<>>
  /\ currentGroupId' = <<"group", now'>>

\* every topic of the registry is still a topic of the registry after the
\* step
TopicsKept == \A T \in Range(MapKeys(topicToGroupId)) : MapHas(topicToGroupId', T)

\* C25: the clear-history action empties the registry and allocates the
\* current group id; no other step removes a topic from the registry
C25_RegistryKeptBetweenClears ==
  [][IF ClearStep THEN ClearedRegistry ELSE TopicsKept]_vars

\* C25, the part that holds: the same as long as clear-history has not
\* been used, which is as long as one invocation of processTranscript is
\* in flight at a time
C25_RegistryKeptBeforeFirstClear ==
  [][IF ClearStep THEN ClearedRegistry ELSE (~cleared => TopicsKept)]_vars

\* ---- C30

\* the direct diagram calls on a canvas the user draws on
NextDrawing ==
  \/ UserDraws
  \/ EnterDiagram
  \/ ParseSucceeds
  \/ ParseFails
  \/ RetryDone
  \/ DiagramCommit
  \/ Confirm

SpecDrawing == InitDiagrams /\ [][NextDrawing]_vars

\* the last commit is the one that adds a block's elements or its error
\* card; the elements its Update deletion removed have gone before it
C30_Committed == event.kind \in {"noteCommit", "diagramCommit", "errorCard"}

\* C30: every element that is in the scene when a block's elements are
\* committed is in the scene after the commit, also an element that was
\* added while the parse of the diagram was awaited
C30_CommitKeepsScene ==
  C30_Committed =>
    \A i \in 1..Len(event.before) : Key(event.before[i]) \in Keys(event.after)

\* C30, the part that holds: the commit keeps every element of the scene
\* that was in the collection it builds on, which for a diagram is the one
\* read when handleAIResponse was entered, or the one read after the
\* deletion of an update
C30_CommitKeepsBase ==
  C30_Committed =>
    \A i \in 1..Len(event.before) :
      Key(event.before[i]) \in Keys(event.base) =>
        Key(event.before[i]) \in Keys(event.after)

\* ---- C31

\* the step ends the only invocation of processTranscript in flight, and
\* clear-history was used while it was in flight: the history that
\* processTranscript had extended is empty again
ClearedInFlight ==
  /\ Len(flights) = 1
  /\ Len(flights') = 0
  /\ cleared
  /\ conversationHistory = <<>>
  /\ topicToGroupId = <<>>

\* the topics the invocation registers itself: the topic of its answer and
\* the topic without its common words
OwnTopics ==
  LET last == conversationHistory'[Len(conversationHistory')]
  IN  IF conversationHistory' = <<>> THEN {}
      ELSE {NormalizeTopic(A.title) : A \in {B \in SessionAnswers : B.type = last.type}}
           \cup {StopWordStripped(NormalizeTopic(A.title)) :
                    A \in {B \in SessionAnswers : B.type = last.type}}

\* the history holds at most the utterance and the answer of the
\* invocation, and the registry no topic of the registry the invocation
\* started with, unless it is a topic the invocation registers
OnlyOwnEntries ==
  /\ Len(conversationHistory') <= 2
  /\ \A T \in Range(MapKeys(topicToGroupId')) :
       MapHas(flights[1].topicToGroupId, T) => T \in OwnTopics

\* C31: when clear-history is used while a block is processed, the
\* registry and the conversation history hold, after the block has
\* finished, no entry from before the clear: only what the block adds
C31_ClearDuringProcessing == [][ClearedInFlight => OnlyOwnEntries]_vars

\* ---- C32

\* the last commit is the error card of a diagram Update of a group
C32_UpdateFailed ==
  /\ event.kind = "errorCard"
  /\ event.shouldUpdate
  /\ event.groupId # Null

\* the diagram elements the group had when the block was entered
GroupDiagram(els, G) ==
  LET Is(el) == Includes(el.groupIds, G) /\ ~(el.noteElement = TRUE)
  IN  SelectSeq(els, Is)

\* the elements are in the scene the last commit left
StillInScene(els) == \A i \in 1..Len(els) : Key(els[i]) \in Keys(event.after)

\* C32: when a diagram Update of group G ends in the error card, whatever
\* the cause, the diagram elements G had before the block are in the scene
\* afterwards
C32_FailedUpdateKeepsDiagram ==
  C32_UpdateFailed => StillInScene(GroupDiagram(event.entry, event.groupId))

\* the error card is the one of the validity filter, raised after the
\* deletion commit of the update
C32_NoneValid ==
  /\ parseMermaidToExcalidraw(DiagramContent(event.response.content)).ok
  /\ parseMermaidToExcalidraw(DiagramContent(event.response.content)).elements # <<>>

\* C32, the part that holds: the same when both parses fail or the
\* parser returns no element
C32_FailedParseKeepsDiagram ==
  (C32_UpdateFailed /\ ~C32_NoneValid) =>
    StillInScene(GroupDiagram(event.entry, event.groupId))

\* ---- C33

\* the elements of the last diagram commit that come from the parser: all
\* but the label texts made for them and the heading of the block, which
\* are the elements createTextElement made
FromParser(created) ==
  LET Is(el) == Head(el.id) # "text" IN SelectSeq(created, Is)

\* el has an id that is not empty and numbers for its position and size
WellFormed(el) ==
  /\ el.id # <<>>
  /\ el.x \in Int /\ el.y \in Int
  /\ el.width \in Int /\ el.height \in Int

\* C33: every parser element committed for a diagram has a non-empty id
\* and numeric x, y, width and height; and a diagram is committed only
\* when a parser element survived the validity filter: when none did, the
\* block ends in the error card, with or without a title
C33_CommitsSurvivorsOrFails ==
  event.kind = "diagramCommit" =>
    /\ \A i \in 1..Len(FromParser(event.created)) :
         WellFormed(FromParser(event.created)[i])
    /\ FromParser(event.created) # <<>>

\* C33, the part that holds: the same for the blocks without a title
C33_UntitledCommitsSurvivorsOrFails ==
  (event.kind = "diagramCommit" /\ ~HasTitle(event.response)) =>
    /\ \A i \in 1..Len(FromParser(event.created)) :
         WellFormed(FromParser(event.created)[i])
    /\ FromParser(event.created) # <<>>

\* ---- C34

\* C34: in every reachable scene the ids of the elements are pairwise
\* distinct, whatever the element factory and the normalisation of a
\* diagram have drawn for them
C34_IdsPairwiseDistinct ==
  \A i, j \in 1..Len(scene) : i # j => scene[i].id # scene[j].id

\* ---- C35

\* what the parser returned for the block of the last commit: the elements
\* of the markup, or of the cleaned markup when the first parse failed
ParsedElements ==
  LET markup == DiagramContent(event.response.content)
  IN  IF parseMermaidToExcalidraw(markup).ok
      THEN parseMermaidToExcalidraw(markup).elements
      ELSE parseMermaidToExcalidraw(CleanedContent(markup)).elements

\* the parser's shapes that carry a label and have neither bound elements
\* nor a text of the parser that names them as its container
LabelledAlone ==
  {i \in 1..Len(ParsedElements) :
     /\ ParsedElements[i].type # "text"
     /\ ParsedElements[i].label # Null
     /\ ParsedElements[i].boundElements = <<>>
     /\ \A j \in 1..Len(ParsedElements) :
          ParsedElements[j].type = "text" =>
            ParsedElements[j].containerId # ParsedElements[i].id}

\* the committed elements made from the i-th element of the parser: the
\* normalisation appends the clock and the index to its id
CommittedFrom(i) ==
  {k \in 1..Len(event.created) :
     /\ event.created[k].type # "text"
     /\ event.created[k].id = ParsedElements[i].id \o <<event.created[k].updated, i - 1>>}

\* the committed texts whose container is the committed element k
TextsOf(k) ==
  {n \in 1..Len(event.created) :
     /\ event.created[n].type = "text"
     /\ event.created[n].containerId = event.created[k].id}

\* the committed text n and the committed shape k are bound to each other
\* and cover the same box
BoundBothWays(k, n) ==
  /\ event.created[n].x = event.created[k].x
  /\ event.created[n].y = event.created[k].y
  /\ event.created[n].width = event.created[k].width
  /\ event.created[n].height = event.created[k].height
  /\ \E b \in 1..Len(event.created[k].boundElements) :
       /\ event.created[k].boundElements[b].type = "text"
       /\ event.created[k].boundElements[b].id = event.created[n].id

\* C35: in every committed diagram each shape that carried a label and had
\* neither bound elements nor a text child is committed with exactly one
\* text made for it, of the same position and size, whose containerId is
\* the shape's id and whose id is a text entry of the shape's
\* boundElements
C35_LabelTextBoundBothWays ==
  event.kind = "diagramCommit" =>
    \A i \in LabelledAlone :
      /\ Cardinality(CommittedFrom(i)) = 1
      /\ \A k \in CommittedFrom(i) :
           /\ Cardinality(TextsOf(k)) = 1
           /\ \A n \in TextsOf(k) : BoundBothWays(k, n)

\* a diagram has been committed whose labelled node has got its text
C35_Witness ==
  /\ event.kind = "diagramCommit"
  /\ LabelledAlone # {}
  /\ \E i \in LabelledAlone : \E k \in CommittedFrom(i) : \E n \in TextsOf(k) :
       BoundBothWays(k, n)

\* ---- C36

\* the committed elements made from the i-th element of the parser, texts
\* included
CommittedOf(i) ==
  {k \in 1..Len(event.created) :
     event.created[k].id = ParsedElements[i].id \o <<event.created[k].updated, i - 1>>}

\* the committed element k is the i-th element of the parser moved by the
\* offset that takes the top-left corner of the parser's bounding box to
\* the position the layout engine returned for the diagram
Translated(i, k) ==
  LET bounds == DiagramBounds(ParsedElements)
      position == DiagramPosition(event.response, bounds, event.base)
  IN  /\ event.created[k].x - ParsedElements[i].x = position.x - bounds.minX
      /\ event.created[k].y - ParsedElements[i].y = position.y - bounds.minY

\* C36: every element of the parser is committed moved by the same
\* offset, the one that takes the top-left corner of the diagram's
\* bounding box to the position returned by the layout engine
C36_EveryElementTranslated ==
  event.kind = "diagramCommit" =>
    \A i \in 1..Len(ParsedElements) : \A k \in CommittedOf(i) : Translated(i, k)

\* the i-th element of the parser is a text whose container the
\* normalisation finds among the shapes: a container that comes before it
Recentred(i) ==
  /\ ParsedElements[i].type = "text"
  /\ ParsedElements[i].containerId # Null
  /\ \E j \in 1..(i - 1) :
       /\ ParsedElements[j].id = ParsedElements[i].containerId
       /\ ParsedElements[j].type # "text"

\* the committed text k has the position of the committed shape that is
\* its container
OnContainer(k) ==
  \E c \in 1..Len(event.created) :
    /\ event.created[c].id = event.created[k].containerId
    /\ event.created[c].type # "text"
    /\ event.created[k].x = event.created[c].x
    /\ event.created[k].y = event.created[c].y

\* C36 as the code has it: every element of the parser is committed moved
\* by that offset, except a text bound to a shape of the diagram that
\* comes before it, which is put on the position of its container
C36_TranslatedUnlessRecentred ==
  event.kind = "diagramCommit" =>
    \A i \in 1..Len(ParsedElements) : \A k \in CommittedOf(i) :
      IF Recentred(i) THEN OnContainer(k) ELSE Translated(i, k)

\* a diagram has been committed below the diagram of its group: a shape
\* moved by the offset and the text bound to it put on its position
C36_Witness ==
  /\ event.kind = "diagramCommit"
  /\ Len(event.base) > 0
  /\ \E i \in 1..Len(ParsedElements) : \E k \in CommittedOf(i) :
       Recentred(i) /\ OnContainer(k) /\ ~Translated(i, k)
  /\ \E i \in 1..Len(ParsedElements) : \E k \in CommittedOf(i) :
       ~Recentred(i) /\ Translated(i, k)

\* ---- C37

\* the step is the silence timer firing in a listening session, 5 s after
\* the last result
TimerFires == isListening /\ SilenceTimeout

\* after the step the hook is not listening and has no current recognizer,
\* and the recognizer it had is not running
ListeningStopped ==
  /\ ~isListening'
  /\ recognitionRef' = 0
  /\ silenceTimeoutRef' = None
  /\ recognitionRef # 0 => recognizers'[recognitionRef].status \notin {"starting", "running"}

\* the step calls onAutoStop once when the transcript is not blank: in
\* continuous mode one more processTranscript is in flight
AutoStopOnce ==
  (trim(transcriptRef) # <<>> /\ silenceTimeoutRef.closure.continuousMode) =>
    /\ started' = started + 1
    /\ Len(flights') = Len(flights) + 1

\* C37: in every listening session, the first one included, the silence
\* timer that fires stops listening (isListening is false and the
\* recognizer is stopped) and calls onAutoStop once with a transcript that
\* is not blank
C37_SilenceStopsListening == [][TimerFires => (ListeningStopped /\ AutoStopOnce)]_vars

\* C37, the part that holds: the same for a timer set by a render that
\* was listening
C37_ListeningRenderStops ==
  [][(TimerFires /\ silenceTimeoutRef.closure.isListening) =>
       (ListeningStopped /\ AutoStopOnce)]_vars

\* ---- C38

\* the hook as stopListening leaves it when the user stops listening, with
\* no recognizer that startListening has started since: every recognizer
\* has been stopped
ListeningOff ==
  /\ ~shouldAutoRestartRef
  /\ ~isListening
  /\ recognitionRef = 0
  /\ silenceTimeoutRef = None
  /\ recognizers # <<>>
  /\ \A r \in 1..Len(recognizers) : recognizers[r].status \in {"stopping", "ended"}

\* the step is the handler of an event of a recognizer
RecognizerEvent ==
  \E r \in 1..Len(recognizers) :
    OnResult(r) \/ OnLateResult(r) \/ OnError(r) \/ OnEnd(r)

\* the step leaves the hook as it is: transcript and isListening keep
\* their values, no recognizer is started, no silence timer is pending and
\* no processTranscript is called
HookUntouched ==
  /\ UNCHANGED <<transcript, transcriptRef, isListening, recognitionRef, flights, started>>
  /\ silenceTimeoutRef' = None
  /\ \A r \in 1..Len(recognizers') : recognizers'[r].status \notin {"starting", "running"}

\* C38: between stopListening and the next startListening no event of a
\* recognizer (a late result, its end, an error) changes the state of the
\* hook
C38_EventsAfterStopIgnored == [][(ListeningOff /\ RecognizerEvent) => HookUntouched]_vars

\* ---- C39

\* the step is the 800 ms timer i starting to listen again
Restarts(i) == RestartTimer(i) /\ Len(recognizers') > Len(recognizers)

\* C39: listening is started again after a processTranscript only in
\* continuous mode and only if the user has not stopped listening since
\* listening was last started on the user's demand
C39_NoRestartAfterManualStop ==
  [][\A i \in 1..Len(restartTimers) :
       Restarts(i) => (restartTimers[i].closure.continuousMode /\ ~stoppedByUser)]_vars

\* C39, the part that holds: the same as long as clear-history has not
\* been used
C39_NoRestartUnlessCleared ==
  [][\A i \in 1..Len(restartTimers) :
       (Restarts(i) /\ ~cleared) =>
         (restartTimers[i].closure.continuousMode /\ ~stoppedByUser)]_vars

\* ---- C40

\* the request that the step answers arrives in the window of its
\* client: at most 60 seconds after the window's first request
InWindow(ip) ==
  /\ rateMap[ip] # None
  /\ serverNow' - rateMap[ip].windowStart <= RATE_LIMIT_WINDOW_MS

\* what a request of client ip does: outside a window it is accepted and
\* opens a window with count 1; in a window that has accepted fewer than
\* 30 requests it is accepted and counted; in a window that has accepted
\* 30 it is rejected with status 429 and the counter stays
Limited(ip) ==
  IF ~InWindow(ip)
  THEN /\ reply'.status # 429
       /\ rateMap'[ip] = RateEntry(1, serverNow')
  ELSE IF rateMap[ip].count < MAX_REQUESTS_PER_WINDOW
  THEN /\ reply'.status # 429
       /\ rateMap'[ip] = RateEntry(rateMap[ip].count + 1, rateMap[ip].windowStart)
  ELSE /\ reply'.status = 429
       /\ rateMap'[ip] = rateMap[ip]

\* C40: for each client address at most 30 requests are accepted in one
\* window, the 60 seconds from the window's first request; every further
\* request in the window is rejected with status 429 and leaves the
\* counter as it is; the first request more than 60 seconds after the
\* start of the window opens a new window with count 1; and a request
\* changes nothing for the other clients
C40_ThirtyPerWindow ==
  [][\A ip \in Clients :
       (reply'.kind = "reply" /\ reply'.ip = ip) =>
         /\ Limited(ip)
         /\ rateMap'[ip].count <= MAX_REQUESTS_PER_WINDOW
         /\ \A other \in Clients \ {ip} : rateMap'[other] = rateMap[other]]_vars

\* a client's 31st request, in the last millisecond of its window, has
\* been rejected while the other client's window is open
C40_Witness ==
  /\ reply.kind = "reply"
  /\ reply.status = 429
  /\ rateMap[reply.ip].count = MAX_REQUESTS_PER_WINDOW
  /\ serverNow - rateMap[reply.ip].windowStart = RATE_LIMIT_WINDOW_MS
  /\ \E other \in Clients \ {reply.ip} :
       /\ rateMap[other] # None
       /\ rateMap[other].count < MAX_REQUESTS_PER_WINDOW

====
